---- MODULE Spec2Model ----
(***************************************************************************)
(* cert-monitor: the reload signal, the scanner's consumer loop, one scan  *)
(* pass (performScan) with its worker pool, the per-directory scan         *)
(* (ProcessDirectory), the metadata cache and the per-directory backoff.   *)
(*                                                                         *)
(* Two entry points are modelled.  entry = "main" is cmd/cert-monitor's    *)
(* service path, statement by statement.  entry = "api" is a host that     *)
(* uses the scanner package directly and calls Scanner.Start.              *)
(***************************************************************************)
EXTENDS Integers, Sequences, FiniteSets, TLC

\* ------------------------------------------------------------------ bounds
\* Workers a configuration may ask for (0..MaxWorkers).
MaxWorkers == 2
\* Changes the environment makes to the watched trees in one behaviour.
MaxFsChanges == 1
\* The clock runs from 0 to MaxNow seconds.
MaxNow == 45
\* Saturation of the ghost counter of TriggerReload calls since a receipt.
MaxTrigCount == 2

\* -------------------------------------------------------- program constants
\* reloadCh: make(chan struct{}, 1)
ReloadChCapUnbuffered == 1 - 1
ReloadChCapTwo == 1 + 1
ReloadChCap == 1
\* registerScanFailure: delay := 30 * time.Second
BaseDelay == 30
\* const MaxBackoff = 10 * time.Minute
MaxBackoff == 600
\* rand.Int63n(int64(10 * time.Second)): jitter in [0, 10s)
JitterSpan == 10

\* ------------------------------------------------------------ strings
UpperCase == <<"A", "B", "C", "D", "E", "F", "G", "H", "I", "J", "K", "L", "M", "N", "O", "P", "Q", "R", "S", "T", "U", "V", "W", "X", "Y", "Z">>
LowerCase == <<"a", "b", "c", "d", "e", "f", "g", "h", "i", "j", "k", "l", "m", "n", "o", "p", "q", "r", "s", "t", "u", "v", "w", "x", "y", "z">>
\* strings.ToLower, strings.EqualFold and strings.Contains on these names
ToLowerChar(c) ==
    IF \E k \in 1..Len(UpperCase) : UpperCase[k] = c
    THEN LowerCase[CHOOSE k \in 1..Len(UpperCase) : UpperCase[k] = c]
    ELSE c
ToLower(str) == [k \in 1..Len(str) |-> ToLowerChar(str[k])]
EqualFold(a, b) ==
    Len(a) = Len(b) /\ \A k \in 1..Len(a) : ToLowerChar(a[k]) = ToLowerChar(b[k])
Contains(str, sub) ==
    \E k \in 0..(Len(str) - Len(sub)) : SubSeq(str, k + 1, k + Len(sub)) = sub

\* ------------------------------------------------------------- the universe
Dirs == {"d1", "d2"}
\* cfg.CertDirs, in configuration order
CertDirs == <<"d1", "d2">>
Files == {"d1/Old/x.pem", "d1/a.pem", "d1/b.crt", "d2/c.pem", "d2/e.der"}
\* the files below each root in the lexical order WalkDir visits them
DirFiles(d) ==
    IF d = "d1" THEN <<"d1/Old/x.pem", "d1/a.pem", "d1/b.crt">>
    ELSE <<"d2/c.pem", "d2/e.der">>
\* d.Name() of the directory below the root that holds the file; <<>> for a
\* file of the root itself
SubdirOf(f) == IF f = "d1/Old/x.pem" THEN <<"O", "l", "d">> ELSE <<>>
\* the test on a directory's name that makes the walk return filepath.SkipDir
ExcludedNames == {<<"o", "l", "d">>, <<"w", "o", "r", "k", "i", "n", "g">>}
SkipSubtreeExactCase(name) == name \in ExcludedNames
SkipSubtree(name) == ToLower(name) \in ExcludedNames
DirOf(f) == IF f \in {"d2/c.pem", "d2/e.der"} THEN "d2" ELSE "d1"
\* strings.ToLower(filepath.Ext(d.Name())): ".der", or one of the PEM family
Ext(f) == IF f = "d2/e.der" THEN ".der" ELSE ".pem"

Certs == {"certA", "certB"}
\* What a file can hold: modification time, size and content.  ImgGrown differs
\* from ImgA in size alone, ImgTouched in modification time alone; ImgJunk holds
\* no certificate.
ImgA == [mod |-> 1, size |-> 1, body |-> "certA"]
ImgGrown == [mod |-> 1, size |-> 2, body |-> "certB"]
ImgTouched == [mod |-> 2, size |-> 1, body |-> "certA"]
ImgJunk == [mod |-> 2, size |-> 2, body |-> "junk"]
\* ImgBad holds a CERTIFICATE block (or DER bytes) that x509 does not parse;
\* ImgJunk holds no CERTIFICATE block at all
ImgBad == [mod |-> 2, size |-> 3, body |-> "badcert"]
\* what a write leaves in a file
Images == {ImgGrown, ImgTouched}
\* the files the environment rewrites or deletes
ChangingFiles == {"d1/a.pem"}
VanishingFiles == {"d1/a.pem"}
\* the roots that are moved away together (one root, or their common parent)
Moves == {{"d2"}, Dirs}

\* the seconds the clock may jump in one step
TickSteps == {45}
\* the jitters drawn (the ends of the range)
Jitters == {0, JitterSpan - 1}

NoInfo == [mod |-> 0, size |-> 0]
NoFile == ""
NoCert == ""

VARIABLES
    entry,          \* "main" (cmd/cert-monitor) or "api" (a host calling Scanner.Start)
    mainPc,         \* main's position
    config,         \* the global config snapshot (config.Get)
    ctxDone,        \* the shutdown context is cancelled
    reloadCh,       \* number of signals buffered in Scanner.reloadCh
    loopState,      \* the goroutine of Scanner.Start: "none", "running", "exited"
    scanPc,         \* its position: "select", or a step of performScan
    passCfg,        \* cfg := config.Get() of the running pass
    jobIdx,         \* next index of cfg.CertDirs to enqueue
    dirJobs,        \* the buffered channel dirJobs
    jobsClosed,     \* close(dirJobs) was called
    workers,        \* the worker goroutines of the running pass
    stale,          \* workers a cancelled pass left running
    cache,          \* Cache.data: path -> [fp, mod, size]
    disk,           \* the persisted cache file: [ok, table]
    backoff,        \* Scanner.backoff: dir -> next allowed time
    now,            \* the clock, in seconds
    fs,             \* the files present: path -> image
    dirOk,          \* dir -> whether the root exists and is a directory
    facts,          \* metrics sink, per-certificate gauges: path -> certificate
    lastReload,     \* metrics.LastReload (-1: never set)
    scenario,       \* what the environment does in this behaviour
    fsBudget,       \* changes of the trees still allowed
    \* history variables
    inFlight,       \* executions of performScan entered and not returned
    trigCount,      \* TriggerReload calls since the last receipt (saturating)
    procCount,      \* dir -> ProcessDirectory calls made by this pass
    passReads,      \* files this pass's workers read
    passWrites,     \* paths this pass's workers wrote to the cache
    passHits,       \* files this pass's workers skipped on a cache hit
    pruned,         \* paths this pass's PruneNonExisting removed
    staleWrites,    \* paths written by stale workers since this pass's prune
    prevKept,       \* paths the last completed pass wrote or found current
    prevFacts,      \* the per-certificate gauges when the last completed pass returned
    curClean,       \* no tree change since the running (or last) pass began
    stable,         \* a pass completed and no tree change since it began
    hkDone,         \* the housekeeping steps this pass has done, in order
    \* a direct call of ProcessDirectory (runDryRun, a one-shot caller)
    call,           \* the frame of the call: position, arguments and locals
    sink,           \* metrics sink: the counters and gauges besides `facts`
    duplicates,     \* what the last direct call returned
    callsLeft,      \* direct calls still to be made
    \* direct use of the backoff table
    failLog,        \* dir -> the last registerScanFailure calls: time, delay, deadline
    failsLeft,      \* registerScanFailure calls still to be made
    skipFrame,      \* the last shouldSkipScan call, if it was the last operation
    \* a call of one of the pure functions
    input,          \* the function called and its argument
    output,         \* what it returned, once it has
    \* direct use of the cache and its file
    cacheLog,       \* the last operation, the table before it, the table last saved
    \* the file system watcher
    watchPc,        \* "new", "running" (Start returned) or "stopped"
    tree,           \* the watched trees: path -> "dir", "file" or "none"
    watchedDirs,    \* Watcher.watchedDirs, the paths registered with fsnotify
    events,         \* w.watcher.Events: the events not yet received by watchLoop
    handled,        \* the event watchLoop handled last, and the state it found
    treeBudget,     \* changes of the watched trees still allowed
    debounce,       \* watchConfigLoop: its timer, the callbacks pending, what it saw
    cfgReload,      \* the config file, and what the last reloadConfig did
    watchRun        \* the watcher's handles and goroutines

vars == <<entry, mainPc, config, ctxDone, reloadCh, loopState, scanPc, passCfg,
          jobIdx, dirJobs, jobsClosed, workers, stale, cache, disk, backoff, now,
          fs, dirOk, facts, lastReload, scenario, fsBudget, inFlight, trigCount,
          procCount, passReads, passWrites, passHits, pruned, staleWrites,
          prevKept, prevFacts, curClean, stable, hkDone, call, sink, duplicates,
          callsLeft, failLog, failsLeft, skipFrame, input, output,
          cacheLog, watchPc, tree, watchedDirs, events, handled, treeBudget,
          debounce,
          cfgReload,
          watchRun>>

\* ------------------------------------------------------------------ helpers
EmptyMap == [x \in {} |-> NoInfo]
Put(m, k, v) == [x \in (DOMAIN m) \cup {k} |-> IF x = k THEN v ELSE m[x]]
Drop(m, ks) == [x \in (DOMAIN m) \ ks |-> m[x]]
Min(a, b) == IF a < b THEN a ELSE b

\* os.Stat(path) succeeds: the file is there and so is its directory
Visible(f) == f \in DOMAIN fs /\ dirOk[DirOf(f)]
StatOf(f) == [mod |-> fs[f].mod, size |-> fs[f].size]

\* filepath.WalkDir of a root with the callback of ProcessDirectory: the files
\* it hands on, in order.  A directory named old or working is not descended
Walk(d) ==
    SelectSeq(DirFiles(d), LAMBDA f : f \in DOMAIN fs /\ ~SkipSubtree(SubdirOf(f)))

\* sha256.Sum256(leafCert.Raw)
Sha256(c) == IF c = "certA" THEN "fpA" ELSE IF c = "certB" THEN "fpB" ELSE "fp?"
\* parseLeafCertificate: the leaf, or NoCert when no block parses
parseLeafCertificateAny(body) == body
parseLeafCertificate(body) == IF body \in Certs THEN body ELSE NoCert
\* parseLeafCertificate: the increments of CertParseErrors it makes.  A DER
\* file that does not parse counts one; in a PEM file each CERTIFICATE block
\* that does not parse counts one, and a file with no such block counts none.
ParseErrorIncs(ext, body) ==
    IF ext = ".der" THEN (IF body \in Certs THEN 0 ELSE 1)
    ELSE (IF body = "badcert" THEN 1 ELSE 0)
\* sanitizeLabelValue: the labels of the certificate longer than MaxLabelLength
\* (certB has a common name of more than 120 characters)
LongLabels(c) == IF c = "certB" THEN 1 ELSE 0

\* the test of ProcessDirectory that skips a file (scanner.go:233)
CacheHitModTimeOnly(found, cached, info) == found /\ cached.mod = info.mod
CacheHit(found, cached, info) ==
    found /\ cached.mod = info.mod /\ cached.size = info.size

\* Cache.SetEntryAtomic: the table after the upsert
SetEntryAtomicZeroSize(c, path, fp, info) ==
    Put(c, path, [fp |-> fp, mod |-> info.mod, size |-> 0])
SetEntryAtomicRestat(c, path, fp, info) ==
    Put(c, path, [fp |-> fp,
                  mod |-> IF path \in DOMAIN fs THEN fs[path].mod ELSE info.mod,
                  size |-> IF path \in DOMAIN fs THEN fs[path].size ELSE info.size])
SetEntryAtomic(c, path, fp, info) ==
    Put(c, path, [fp |-> fp, mod |-> info.mod, size |-> info.size])

\* The cache file.  json.MarshalIndent writes one member per path, an object
\* with the Fingerprint as an array of the digest's bytes, the ModTime as an
\* RFC 3339 text and the Size as a number.
Digest(fp) == IF fp = "fpA" THEN <<10, 1>> ELSE IF fp = "fpB" THEN <<11, 2>> ELSE <<0, 0>>
FormatTime(t) == <<t \div 10, t % 10>>
ParseTime(txt) == txt[1] * 10 + txt[2]
EncodeEntry(e) ==
    [Fingerprint |-> Digest(e.fp), ModTime |-> FormatTime(e.mod), Size |-> e.size]
DecodeEntryZeroSize(j) ==
    [fp |-> CHOOSE fp \in {"fpA", "fpB", "fp?"} : Digest(fp) = j.Fingerprint,
     mod |-> ParseTime(j.ModTime), size |-> 0]
DecodeEntry(j) ==
    [fp |-> CHOOSE fp \in {"fpA", "fpB", "fp?"} : Digest(fp) = j.Fingerprint,
     mod |-> ParseTime(j.ModTime), size |-> j.Size]
Marshal(c) == [p \in DOMAIN c |-> EncodeEntry(c[p])]
\* no cache file; a file that is not JSON of the expected shape; the JSON null
NoDisk == [ok |-> FALSE, kind |-> "object", table |-> EmptyMap]
GarbageFile == [ok |-> TRUE, kind |-> "garbage", table |-> EmptyMap]
NullFile == [ok |-> TRUE, kind |-> "null", table |-> EmptyMap]
\* Cache.Save: the file after os.WriteFile
Save(c) == [ok |-> TRUE, kind |-> "object", table |-> Marshal(c)]
\* Cache.Load: the table after it.  A file that cannot be read leaves the table
\* alone; json.Unmarshal into the map sets the members of the file and keeps the
\* other keys of the map, does nothing on null, and on an error the table is
\* replaced by an empty one
LoadKeepOnError(c, d) ==
    IF ~d.ok \/ d.kind # "object" THEN c
    ELSE [p \in (DOMAIN c) \cup (DOMAIN d.table) |->
            IF p \in DOMAIN d.table THEN DecodeEntry(d.table[p]) ELSE c[p]]
Load(c, d) ==
    IF ~d.ok THEN c
    ELSE IF d.kind = "garbage" THEN EmptyMap
    ELSE IF d.kind = "null" THEN c
    ELSE [p \in (DOMAIN c) \cup (DOMAIN d.table) |->
            IF p \in DOMAIN d.table THEN DecodeEntry(d.table[p]) ELSE c[p]]

\* The paths of the watched trees, as sequences of characters and path
\* elements: the root d1, its subdirectories d1/sub and d1/sub2, the file
\* d1/a.pem
PathRoot == <<"d1">>
PathSub == <<"d1", "/", "sub">>
PathSub2 == <<"d1", "/", "sub", "2">>
PathFile == <<"d1", "/", "a.pem">>
WatchPaths == {PathRoot, PathSub, PathSub2, PathFile}
\* A larger universe for the registration walk: d1/Old and d1/sub/WORKING
\* with a directory in each, a second root d2 with d2/live, and a third root
\* that is configured as working/d3
PathOld == <<"d1", "/", "O", "l", "d">>
PathOldIn == <<"d1", "/", "O", "l", "d", "/", "in">>
PathSubWorking == <<"d1", "/", "sub", "/", "W", "O", "R", "K", "I", "N", "G">>
PathSubWorkingIn == <<"d1", "/", "sub", "/", "W", "O", "R", "K", "I", "N", "G", "/", "in">>
PathSubDeep == <<"d1", "/", "sub", "/", "deep">>
PathRoot2 == <<"d2">>
PathLive == <<"d2", "/", "live">>
PathRoot3 == <<"w", "o", "r", "k", "i", "n", "g", "/", "d3">>
RegisterPaths ==
    {PathRoot, PathSub, PathSubDeep, PathOld, PathOldIn, PathSubWorking,
     PathSubWorkingIn, PathRoot2, PathLive, PathRoot3}
\* w.config.CertDirs, in configuration order
WatchRootSeq == <<PathRoot, PathRoot2, PathRoot3>>
WatchRoots == {WatchRootSeq[k] : k \in 1..Len(WatchRootSeq)}
\* strings.HasPrefix
HasPrefix(path, prefix) ==
    Len(prefix) <= Len(path) /\ SubSeq(path, 1, Len(prefix)) = prefix
\* path lies in the tree below dir
Below(path, dir) == path # dir /\ HasPrefix(path, dir \o <<"/">>)
\* d.Name(): what follows the last separator
RECURSIVE BaseName(_)
BaseName(path) ==
    IF \A k \in 1..Len(path) : path[k] # "/" THEN path
    ELSE BaseName(Tail(path))
\* filepath.Dir of a path of the universe
ParentOf(path) == IF path \in WatchRoots THEN <<>> ELSE PathRoot
\* the operations of an fsnotify event; an event carries a set of them
Ops == {"Create", "Write", "Remove", "Rename", "Chmod"}
\* the operations on which watchLoop triggers a reload
ReloadOpsNoRename == {"Create", "Write", "Remove"}
ReloadOps == {"Create", "Write", "Remove", "Rename"}
\* no event has been handled
NoEvent == [op |-> {}, name |-> <<>>, before |-> {}, pending |-> 0, scanning |-> FALSE]
\* watchConfigLoop has seen no event: its timer is nil, no callback is pending
NoTimer == 0 - 1
NoDebounce ==
    [timer |-> NoTimer, pending |-> {}, seen |-> "none", last |-> NoTimer,
     burst |-> 0, since |-> 0, firedAt |-> NoTimer]
\* What the config file holds: nothing readable (ConfigFile is "", or the file
\* is missing or unreadable), text that yaml does not parse, or a document;
\* cfg is Default() overlaid with the document
NoConfigFile == [kind |-> "none", cfg |-> [NumWorkers |-> 1, ClearCacheOnReload |-> FALSE, DryRun |-> FALSE]]
\* reloadConfig has not run
NoReload == [file |-> NoConfigFile, runs |-> 0, err |-> FALSE]
\* Watcher after New: no handle, no goroutine.  watchConfig tells whether
\* setupConfigWatcher will watch a config file (ConfigFile is set and the
\* handle takes it), addFails the paths for which w.watcher.Add returns an
\* error
NoWatchRun ==
    [watchConfig |-> FALSE, watcher |-> "nil", configWatcher |-> "nil",
     watchLoop |-> "none", configLoop |-> "none", addFails |-> {}]
\* the watcher is not part of the behaviour
WatchOff ==
    /\ watchPc = "new"
    /\ watchRun = NoWatchRun
    /\ tree = [p \in WatchPaths |-> "none"]
    /\ treeBudget = 0

\* no operation on the cache has been made directly
NoLog == [op |-> "none", held |-> EmptyMap, saved |-> EmptyMap, intact |-> FALSE]

\* Cache.PruneNonExisting: the keys whose stat fails
PruneSet(c) == {p \in DOMAIN c : ~Visible(p)}

\* dirJobs := make(chan string, len(cfg.CertDirs))
JobQueueCapOneShort(dirs) == Len(dirs) - 1
JobQueueCap(dirs) == Len(dirs)

\* shouldSkipScan: now.Before(nextAllowed)
StillBackedOffInverted(b, d, t) == d \in DOMAIN b /\ t > b[d]
StillBackedOffWhenListed(b, d, t) == d \in DOMAIN b
StillBackedOff(b, d, t) == d \in DOMAIN b /\ t < b[d]
\* registerScanFailure: the delay before the jitter
FailureDelayNone(b, d, t) == 0
FailureDelayUnclamped(b, d, t) ==
    IF d \in DOMAIN b /\ b[d] > t THEN (b[d] - t) * 2 ELSE BaseDelay
FailureDelay(b, d, t) ==
    IF d \in DOMAIN b /\ b[d] > t
    THEN (IF (b[d] - t) * 2 > MaxBackoff THEN MaxBackoff ELSE (b[d] - t) * 2)
    ELSE BaseDelay
\* clearExpiredBackoffs: now.After(nextAllowed)
ExpiredBackoffs(b, t) == {d \in DOMAIN b : t > b[d]}

\* a worker goroutine
IdleWorker == [pc |-> "off", dir |-> NoFile, todo |-> <<>>, info |-> NoInfo,
               leaf |-> NoCert]
WorkerIds == 1..MaxWorkers
\* no direct call of ProcessDirectory is running
IdleCall == [pc |-> "off", dir |-> NoFile, dry |-> FALSE, todo |-> <<>>,
             info |-> NoInfo, leaf |-> NoCert, seen |-> EmptyMap]
\* the sink after metrics.Initialize: no counter or gauge has a value
EmptySink == [parseErrors |-> [f \in Files |-> 0], filesTotal |-> [d \in Dirs |-> 0],
              certsParsed |-> [d \in Dirs |-> 0], durations |-> [d \in Dirs |-> 0],
              lastScan |-> {}, truncated |-> 0, dupCount |-> EmptyMap]
\* no pure function is called
NoInput == [fn |-> "none"]
\* no pure function has returned
NoOutput == [done |-> FALSE]
\* no shouldSkipScan call has just returned
NoFrame == [dir |-> NoFile, nextAllowed |-> -1, ret |-> FALSE]
\* inside ProcessDirectory
InPD(w) == w.pc \in {"skipchk", "statroot", "readdir", "fstat", "lookup", "read", "set"}
Active(w) == w.pc # "off"
\* wg.Wait() returns: every worker of the pass has returned
WorkersDone(ws) == \A i \in WorkerIds : ~Active(ws[i])

\* the receive of Scanner.Start's loop is reached only between passes:
\* performScan is called synchronously
LoopAtSelectAlways(pc) == TRUE
LoopAtSelect(pc) == pc = "select"

\* the steps of performScan after the wait, in order (scanner.go:160-166)
AfterWaitSaveFirst(pc) ==
    CASE pc = "wait" -> "save" [] pc = "save" -> "prune" [] pc = "prune" -> "clear"
      [] pc = "clear" -> "stamp" [] OTHER -> "select"
AfterWait(pc) ==
    CASE pc = "wait" -> "prune" [] pc = "prune" -> "clear" [] pc = "clear" -> "save"
      [] pc = "save" -> "stamp" [] OTHER -> "select"

\* ------------------------------------------------------------ variable groups
mainVars == <<entry, mainPc>>
\* what the scan loop of Scanner.Start never touches
directVars == <<call, sink, duplicates, callsLeft, failLog, failsLeft, skipFrame>>
pureVars == <<input, output>>
\* what only the specifications of single components use
watchVars == <<watchPc, tree, watchedDirs, events, handled, treeBudget>>
sideVars == <<pureVars, cacheLog, watchVars, debounce, cfgReload, watchRun>>
fixedVars == <<scenario, directVars, sideVars>>
envVars == <<now, fs, dirOk, fixedVars, fsBudget>>
chanVars == <<reloadCh, trigCount>>
loopVars == <<loopState, scanPc, inFlight>>
passVars == <<passCfg, jobIdx, dirJobs, jobsClosed>>
poolVars == <<workers, stale>>
storeVars == <<cache, disk, backoff, facts, lastReload>>
cleanVars == <<prevKept, prevFacts, curClean, stable>>
passHist == <<procCount, passReads, passWrites, passHits, pruned, staleWrites, hkDone>>
\* the history of a pass is dropped when performScan returns
ForgetPass ==
    /\ procCount' = [d \in Dirs |-> 0]
    /\ passReads' = {}
    /\ passWrites' = {}
    /\ passHits' = {}
    /\ pruned' = {}
    /\ staleWrites' = {}
    /\ hkDone' = <<>>

\* ---------------------------------------------------------------------- Init
\* the trees the program is started on
InitTrees ==
    { [f \in {"d1/a.pem", "d1/b.crt", "d2/c.pem"} |->
          IF f = "d1/b.crt" THEN ImgJunk ELSE ImgA] }

\* parseFlags gives NumWorkers 0 unless --workers or NUM_WORKERS is set, and
\* applyOverrides stores that snapshot with config.Set
\* flag.IntVar(&numWorkers, "workers", 0, ...): the value of --workers, 0 when
\* the flag is not given
FlagWorkers == 0..MaxWorkers
\* os.Getenv("NUM_WORKERS"): unset, or a number
NoEnv == [set |-> FALSE, n |-> 0]
EnvWorkers == {NoEnv} \cup {[set |-> TRUE, n |-> k] : k \in 0..MaxWorkers}
\* NumWorkers of the snapshot main stores: parseFlags takes the flag,
\* applyOverrides replaces it by NUM_WORKERS when that is set and calls
\* config.Set without validation; the file loaded before is not consulted
StartupWorkers(flag, env) == IF env.set THEN env.n ELSE flag
Configs ==
    [NumWorkers : {StartupWorkers(f, e) : f \in FlagWorkers, e \in EnvWorkers},
     ClearCacheOnReload : BOOLEAN, DryRun : BOOLEAN]

InitCommon ==
    /\ config \in Configs
    /\ ctxDone = FALSE
    /\ reloadCh = 0
    /\ loopState = "none"
    /\ scanPc = "select"
    /\ passCfg = config
    /\ jobIdx = 1
    /\ dirJobs = <<>>
    /\ jobsClosed = FALSE
    /\ workers = [i \in WorkerIds |-> IdleWorker]
    /\ stale = [i \in WorkerIds |-> IdleWorker]
    /\ cache = EmptyMap
    /\ disk = NoDisk
    /\ backoff = EmptyMap
    /\ now = 0
    /\ dirOk = [d \in Dirs |-> TRUE]
    /\ facts = EmptyMap
    /\ lastReload = -1
    /\ inFlight = 0
    /\ trigCount = 0
    /\ procCount = [d \in Dirs |-> 0]
    /\ passReads = {}
    /\ passWrites = {}
    /\ passHits = {}
    /\ pruned = {}
    /\ staleWrites = {}
    /\ prevKept = {}
    /\ prevFacts = EmptyMap
    /\ curClean = FALSE
    /\ stable = FALSE
    /\ hkDone = <<>>
    /\ call = IdleCall
    /\ sink = EmptySink
    /\ duplicates = "nil"
    /\ failLog = [d \in Dirs |-> <<>>]
    /\ skipFrame = NoFrame
    /\ output = NoOutput
    /\ cacheLog = NoLog
    /\ watchedDirs = {}
    /\ events = <<>>
    /\ handled = NoEvent
    /\ debounce = NoDebounce
    /\ cfgReload = NoReload

\* The environment of one behaviour is one of three: "churn", the trees change
\* (MaxFsChanges times) and the clock runs, with no shutdown; "shutdown", the
\* shutdown signal may arrive over unchanging trees; "mixed", both tree changes
\* and the shutdown signal, for a single worker that keeps its cache.
Scenarios == {"churn", "shutdown", "mixed"}

Init ==
    /\ InitCommon
    /\ input = NoInput
    /\ WatchOff
    /\ entry \in {"main", "api"}
    /\ mainPc = IF entry = "main" THEN "startWatcher" ELSE "none"
    /\ scenario \in Scenarios
    /\ scenario = "mixed" => config.NumWorkers = 1 /\ ~config.ClearCacheOnReload
    /\ ~config.DryRun
    /\ fs \in InitTrees
    /\ callsLeft = 0
    /\ failsLeft = 0
    /\ fsBudget = IF scenario = "shutdown" THEN 0 ELSE MaxFsChanges

\* --------------------------------------------------------------- environment
TreeChanged ==
    /\ fsBudget > 0
    /\ fsBudget' = fsBudget - 1
    /\ curClean' = FALSE
    /\ stable' = FALSE
    /\ UNCHANGED <<prevKept, prevFacts, now, fixedVars>>

\* a file is written, replaced or created
FsWrite ==
    /\ \E f \in ChangingFiles, img \in Images :
          /\ (f \in DOMAIN fs => fs[f] # img)
          /\ fs' = Put(fs, f, img)
    /\ TreeChanged
    /\ UNCHANGED <<dirOk, mainVars, config, ctxDone, chanVars, loopVars, passVars,
                   poolVars, storeVars, passHist>>

\* a file is deleted
FsRemove ==
    /\ \E f \in VanishingFiles \cap DOMAIN fs : fs' = Drop(fs, {f})
    /\ TreeChanged
    /\ UNCHANGED <<dirOk, mainVars, config, ctxDone, chanVars, loopVars, passVars,
                   poolVars, storeVars, passHist>>

\* roots are moved away, or moved back with what they hold
DirToggle ==
    /\ \E ds \in Moves :
          dirOk' = [d \in Dirs |-> IF d \in ds THEN ~dirOk[d] ELSE dirOk[d]]
    /\ TreeChanged
    /\ UNCHANGED <<fs, mainVars, config, ctxDone, chanVars, loopVars, passVars,
                   poolVars, storeVars, passHist>>

\* time passes
Tick ==
    /\ scenario = "churn"
    /\ \E s \in TickSteps : now + s <= MaxNow /\ now' = now + s
    /\ UNCHANGED <<fs, dirOk, fixedVars, fsBudget, mainVars, config, ctxDone, chanVars, loopVars,
                   passVars, poolVars, storeVars, cleanVars, passHist>>

\* SIGINT or SIGTERM: signal.NotifyContext cancels ctx
Cancel ==
    /\ scenario # "churn"
    /\ ~ctxDone
    /\ ctxDone' = TRUE
    /\ UNCHANGED <<envVars, mainVars, config, chanVars, loopVars, passVars, poolVars,
                   storeVars, cleanVars, passHist>>

\* ------------------------------------------------------------ reload signal
\* Scanner.TriggerReload: a non-blocking send on reloadCh
TriggerReload ==
    /\ reloadCh' = IF reloadCh < ReloadChCap THEN reloadCh + 1 ELSE reloadCh
    /\ trigCount' = Min(trigCount + 1, MaxTrigCount)

\* the watcher's loop goroutine exists
WatcherRunning ==
    entry = "api" \/ mainPc \in {"startServer", "scanAll", "wait"}

\* watchLoop handles a create, write, remove or rename event
WatchLoopEvent ==
    /\ WatcherRunning
    /\ TriggerReload
    /\ UNCHANGED <<envVars, mainVars, config, ctxDone, loopVars, passVars, poolVars,
                   storeVars, cleanVars, passHist>>

\* the debounce timer fires: reloadConfig loads the file and triggers
ReloadConfig ==
    /\ WatcherRunning
    /\ TriggerReload
    /\ UNCHANGED <<envVars, mainVars, config, ctxDone, loopVars, passVars, poolVars,
                   storeVars, cleanVars, passHist>>

\* Scanner.ScanAll called by a host
ScanAll ==
    /\ entry = "api"
    /\ TriggerReload
    /\ UNCHANGED <<envVars, mainVars, config, ctxDone, loopVars, passVars, poolVars,
                   storeVars, cleanVars, passHist>>

\* ---------------------------------------------------------------------- main
MainStartWatcher ==
    /\ mainPc = "startWatcher"
    /\ mainPc' = "startServer"
    /\ UNCHANGED <<entry, envVars, config, ctxDone, chanVars, loopVars, passVars,
                   poolVars, storeVars, cleanVars, passHist>>

MainStartServer ==
    /\ mainPc = "startServer"
    /\ mainPc' = "scanAll"
    /\ UNCHANGED <<entry, envVars, config, ctxDone, chanVars, loopVars, passVars,
                   poolVars, storeVars, cleanVars, passHist>>

\* certScanner.ScanAll()
MainScanAll ==
    /\ mainPc = "scanAll"
    /\ mainPc' = "wait"
    /\ TriggerReload
    /\ UNCHANGED <<entry, envVars, config, ctxDone, loopVars, passVars, poolVars,
                   storeVars, cleanVars, passHist>>

\* <-ctx.Done(), then fsWatcher.Stop() and httpServer.Stop()
MainShutdown ==
    /\ mainPc = "wait"
    /\ ctxDone
    /\ mainPc' = "save"
    /\ UNCHANGED <<entry, envVars, config, ctxDone, chanVars, loopVars, passVars,
                   poolVars, storeVars, cleanVars, passHist>>

\* certCache.Save()
MainSave ==
    /\ mainPc = "save"
    /\ mainPc' = "exit"
    /\ disk' = Save(cache)
    /\ UNCHANGED <<entry, envVars, config, ctxDone, chanVars, loopVars, passVars,
                   poolVars, cache, backoff, facts, lastReload, cleanVars, passHist>>

\* ------------------------------------------------- Scanner.Start and its loop
\* Start: spawns the processing goroutine, then triggers the initial scan.
\* Only a host calls it: main never does.
Start ==
    /\ entry = "api"
    /\ loopState = "none"
    /\ loopState' = "running"
    /\ TriggerReload
    /\ UNCHANGED <<scanPc, inFlight, envVars, mainVars, config, ctxDone, passVars,
                   poolVars, storeVars, cleanVars, passHist>>

\* select: case <-ctx.Done(): return
LoopExit ==
    /\ loopState = "running"
    /\ LoopAtSelect(scanPc)
    /\ ctxDone
    /\ loopState' = "exited"
    /\ UNCHANGED <<scanPc, inFlight, envVars, mainVars, config, ctxDone, chanVars,
                   passVars, poolVars, storeVars, cleanVars, passHist>>

\* select: case <-s.reloadCh: s.performScan(ctx).  When ctx is done too, select
\* takes either case.
LoopReceive ==
    /\ loopState = "running"
    /\ LoopAtSelect(scanPc)
    /\ reloadCh > 0
    /\ reloadCh' = reloadCh - 1
    /\ trigCount' = 0
    /\ scanPc' = "reset"
    /\ inFlight' = inFlight + 1
    /\ UNCHANGED <<loopState, envVars, mainVars, config, ctxDone, passVars, poolVars,
                   storeVars, cleanVars, passHist>>

\* performScan, lines 86-127: the snapshot, metrics.Reset, cache.Clear, the
\* channel and the workers
PassReset ==
    /\ scanPc = "reset"
    /\ scanPc' = "produce"
    /\ passCfg' = config
    /\ facts' = EmptyMap
    /\ cache' = IF config.ClearCacheOnReload THEN EmptyMap ELSE cache
    /\ dirJobs' = <<>>
    /\ jobsClosed' = FALSE
    /\ jobIdx' = 1
    /\ workers' = [i \in WorkerIds |->
                     IF i <= config.NumWorkers THEN [IdleWorker EXCEPT !.pc = "take"]
                     ELSE IdleWorker]
    /\ procCount' = [d \in Dirs |-> 0]
    /\ passReads' = {}
    /\ passWrites' = {}
    /\ passHits' = {}
    /\ pruned' = {}
    /\ staleWrites' = {}
    /\ hkDone' = <<>>
    /\ curClean' = TRUE
    /\ UNCHANGED <<loopState, inFlight, stale, disk, backoff, lastReload, prevKept, prevFacts,
                   stable, envVars, mainVars, config, ctxDone, chanVars>>

\* select: case dirJobs <- dir
PassEnqueue ==
    /\ scanPc = "produce"
    /\ jobIdx <= Len(CertDirs)
    /\ Len(dirJobs) < JobQueueCap(CertDirs)
    /\ dirJobs' = Append(dirJobs, CertDirs[jobIdx])
    /\ jobIdx' = jobIdx + 1
    /\ UNCHANGED <<passCfg, jobsClosed, loopVars, envVars, mainVars, config, ctxDone,
                   chanVars, poolVars, storeVars, cleanVars, passHist>>

\* performScan returns on a Done case: the deferred workerCancel runs and the
\* workers still inside ProcessDirectory run on; a worker waiting for a job
\* finds workerCtx done (or the channel closed) and returns
Abandon ==
    /\ scanPc' = "select"
    /\ inFlight' = inFlight - 1
    /\ stale' = [i \in WorkerIds |-> IF InPD(workers[i]) THEN workers[i] ELSE stale[i]]
    /\ workers' = [i \in WorkerIds |-> IdleWorker]
    /\ ForgetPass
    /\ UNCHANGED loopState

\* select: case <-workerCtx.Done(): close(dirJobs); return
PassProduceCancelled ==
    /\ scanPc = "produce"
    /\ jobIdx <= Len(CertDirs)
    /\ ctxDone
    /\ jobsClosed' = TRUE
    /\ Abandon
    /\ UNCHANGED <<passCfg, jobIdx, dirJobs, envVars, mainVars, config, ctxDone,
                   chanVars, storeVars, cleanVars>>

\* close(dirJobs) after the last job
PassClose ==
    /\ scanPc = "produce"
    /\ jobIdx > Len(CertDirs)
    /\ jobsClosed' = TRUE
    /\ scanPc' = "wait"
    /\ UNCHANGED <<passCfg, jobIdx, dirJobs, loopState, inFlight, envVars, mainVars,
                   config, ctxDone, chanVars, poolVars, storeVars, cleanVars, passHist>>

\* select: case <-done (wg.Wait returned)
PassWaitDone ==
    /\ scanPc = "wait"
    /\ WorkersDone(workers)
    /\ scanPc' = AfterWait(scanPc)
    /\ UNCHANGED <<loopState, inFlight, passVars, envVars, mainVars, config, ctxDone,
                   chanVars, poolVars, storeVars, cleanVars, passHist>>

\* select: case <-workerCtx.Done(): workerCancel(); return
PassWaitCancelled ==
    /\ scanPc = "wait"
    /\ ctxDone
    /\ Abandon
    /\ UNCHANGED <<passVars, envVars, mainVars, config, ctxDone, chanVars, storeVars,
                   cleanVars>>

\* the return of performScan after its last step
AfterStep ==
    /\ scanPc' = AfterWait(scanPc)
    /\ inFlight' = IF AfterWait(scanPc) = "select" THEN inFlight - 1 ELSE inFlight
    /\ stable' = IF AfterWait(scanPc) = "select" THEN curClean ELSE stable
    /\ prevKept' = IF AfterWait(scanPc) = "select" THEN passWrites \cup passHits
                   ELSE prevKept
    /\ prevFacts' = IF AfterWait(scanPc) = "select" THEN facts ELSE prevFacts
    /\ UNCHANGED <<loopState, curClean>>

\* s.cache.PruneNonExisting()
PassPrune ==
    /\ scanPc = "prune"
    /\ cache' = Drop(cache, PruneSet(cache))
    /\ pruned' = PruneSet(cache)
    /\ staleWrites' = {}
    /\ hkDone' = Append(hkDone, "prune")
    /\ AfterStep
    /\ UNCHANGED <<disk, backoff, facts, lastReload, procCount, passReads, passWrites,
                   passHits, passVars, envVars, mainVars, config, ctxDone,
                   chanVars, poolVars>>

\* s.clearExpiredBackoffs()
PassClearExpired ==
    /\ scanPc = "clear"
    /\ backoff' = Drop(backoff, ExpiredBackoffs(backoff, now))
    /\ hkDone' = Append(hkDone, "clear")
    /\ AfterStep
    /\ UNCHANGED <<cache, disk, facts, lastReload, procCount, passReads, passWrites,
                   passHits, pruned, staleWrites, passVars, envVars,
                   mainVars, config, ctxDone, chanVars, poolVars>>

\* s.cache.Save(): writes a copy of the table to the cache file
PassSave ==
    /\ scanPc = "save"
    /\ disk' = Save(cache)
    /\ hkDone' = Append(hkDone, "save")
    /\ AfterStep
    /\ UNCHANGED <<cache, backoff, facts, lastReload, procCount, passReads, passWrites,
                   passHits, pruned, staleWrites, passVars, envVars, mainVars, config,
                   ctxDone, chanVars, poolVars>>

\* metrics.LastReload.Set(now)
PassStamp ==
    /\ scanPc = "stamp"
    /\ lastReload' = now
    /\ AfterStep
    /\ IF AfterWait(scanPc) = "select" THEN ForgetPass
       ELSE /\ hkDone' = Append(hkDone, "stamp")
            /\ UNCHANGED <<procCount, passReads, passWrites, passHits, pruned,
                           staleWrites>>
    /\ UNCHANGED <<cache, disk, backoff, facts, passVars, envVars, mainVars,
                   config, ctxDone, chanVars, poolVars>>

\* ------------------------------------------------------------------ workers
\* st = FALSE: worker i of the running pass; st = TRUE: worker i left running
\* by a cancelled pass
Pool(st) == IF st THEN stale ELSE workers
SetW(st, i, r) ==
    IF st THEN stale' = [stale EXCEPT ![i] = r] /\ UNCHANGED workers
    ELSE workers' = [workers EXCEPT ![i] = r] /\ UNCHANGED stale

\* ProcessDirectory returned: back to `for dir := range dirJobs`.  A worker of a
\* cancelled pass finds workerCtx done there and returns.
Returned(st) == IF st THEN IdleWorker ELSE [IdleWorker EXCEPT !.pc = "take"]
\* the walk moves to the next entry, or ends
NextEntry(st, w) ==
    IF Len(w.todo) > 1
    THEN [w EXCEPT !.pc = "fstat", !.todo = Tail(w.todo), !.info = NoInfo,
                   !.leaf = NoCert]
    ELSE Returned(st)

\* for dir := range dirJobs, then the check of workerCtx.Done().  The workers
\* waiting for a job are interchangeable: the one of lowest index receives.
WorkerTake(i) ==
    /\ workers[i].pc = "take"
    /\ \A k \in 1..(i - 1) : workers[k].pc # "take"
    /\ \/ /\ Len(dirJobs) > 0
          /\ dirJobs' = Tail(dirJobs)
          /\ IF ctxDone
             THEN /\ workers' = [workers EXCEPT ![i] = IdleWorker]
                  /\ UNCHANGED procCount
             ELSE /\ workers' = [workers EXCEPT ![i] =
                                   [IdleWorker EXCEPT !.pc = "skipchk",
                                                      !.dir = Head(dirJobs)]]
                  /\ procCount' = [procCount EXCEPT ![Head(dirJobs)] = @ + 1]
       \/ /\ Len(dirJobs) = 0
          /\ jobsClosed
          /\ workers' = [workers EXCEPT ![i] = IdleWorker]
          /\ UNCHANGED <<dirJobs, procCount>>
    /\ UNCHANGED <<stale, passCfg, jobIdx, jobsClosed, loopVars, envVars, mainVars,
                   config, ctxDone, chanVars, storeVars, cleanVars, passReads,
                   passWrites, passHits, pruned, staleWrites, hkDone>>

\* ProcessDirectory: s.shouldSkipScan(dirPath)
WorkerSkipCheck(st, i) ==
    LET w == Pool(st)[i] IN
    /\ w.pc = "skipchk"
    /\ IF StillBackedOff(backoff, w.dir, now)
       THEN /\ SetW(st, i, Returned(st))
            /\ UNCHANGED backoff
       ELSE /\ SetW(st, i, [w EXCEPT !.pc = "statroot"])
            /\ backoff' = Drop(backoff, {w.dir})
    /\ UNCHANGED <<cache, disk, facts, lastReload, passVars, loopVars, envVars,
                   mainVars, config, ctxDone, chanVars, cleanVars, passHist>>

\* ProcessDirectory: os.Stat(dirPath), and registerScanFailure when it fails
WorkerStatRoot(st, i) ==
    LET w == Pool(st)[i] IN
    /\ w.pc = "statroot"
    /\ IF dirOk[w.dir]
       THEN /\ SetW(st, i, [w EXCEPT !.pc = "readdir"])
            /\ UNCHANGED backoff
       ELSE /\ SetW(st, i, Returned(st))
            /\ \E j \in Jitters :
                  backoff' = Put(backoff, w.dir, now + FailureDelay(backoff, w.dir, now) + j)
    /\ UNCHANGED <<cache, disk, facts, lastReload, passVars, loopVars, envVars,
                   mainVars, config, ctxDone, chanVars, cleanVars, passHist>>

\* filepath.WalkDir reads the root's entries; the callback returns nil on an
\* error, so a root that cannot be read ends the walk with no error
WorkerReadDir(st, i) ==
    LET w == Pool(st)[i]
        listing == IF dirOk[w.dir]
                   THEN Walk(w.dir)
                   ELSE <<>>
    IN
    /\ w.pc = "readdir"
    /\ SetW(st, i, IF listing = <<>> THEN Returned(st)
                   ELSE [w EXCEPT !.pc = "fstat", !.todo = listing])
    /\ UNCHANGED <<storeVars, passVars, loopVars, envVars, mainVars, config, ctxDone,
                   chanVars, cleanVars, passHist>>

\* Cache.GetEntryAtomic: os.Stat(path)
WorkerFileStat(st, i) ==
    LET w == Pool(st)[i]
        f == Head(w.todo)
    IN
    /\ w.pc = "fstat"
    /\ SetW(st, i, IF Visible(f) THEN [w EXCEPT !.pc = "lookup", !.info = StatOf(f)]
                   ELSE NextEntry(st, w))
    /\ UNCHANGED <<storeVars, passVars, loopVars, envVars, mainVars, config, ctxDone,
                   chanVars, cleanVars, passHist>>

\* Cache.GetEntryAtomic: the lookup under the read lock, then the test of
\* ProcessDirectory on ModTime and Size
WorkerLookup(st, i) ==
    LET w == Pool(st)[i]
        f == Head(w.todo)
        found == f \in DOMAIN cache
        cached == IF found THEN cache[f] ELSE [fp |-> "", mod |-> 0, size |-> 0]
    IN
    /\ w.pc = "lookup"
    /\ IF CacheHit(found, cached, w.info)
       THEN /\ SetW(st, i, NextEntry(st, w))
            /\ passHits' = IF st THEN passHits ELSE passHits \cup {f}
       ELSE /\ SetW(st, i, [w EXCEPT !.pc = "read"])
            /\ UNCHANGED passHits
    /\ UNCHANGED <<storeVars, passVars, loopVars, envVars, mainVars, config, ctxDone,
                   chanVars, cleanVars, procCount, passReads, passWrites, pruned,
                   staleWrites, hkDone>>

\* os.ReadFile, parseLeafCertificate and processCertificate
WorkerRead(st, i) ==
    LET w == Pool(st)[i]
        f == Head(w.todo)
        leaf == IF Visible(f) THEN parseLeafCertificate(fs[f].body) ELSE NoCert
    IN
    /\ w.pc = "read"
    /\ IF ~Visible(f)
       THEN /\ SetW(st, i, NextEntry(st, w))
            /\ UNCHANGED <<facts, passReads>>
       ELSE /\ passReads' = IF st THEN passReads ELSE passReads \cup {f}
            /\ IF leaf = NoCert
               THEN /\ SetW(st, i, NextEntry(st, w))
                    /\ UNCHANGED facts
               ELSE /\ SetW(st, i, [w EXCEPT !.pc = "set", !.leaf = leaf])
                    /\ facts' = Put(facts, f, leaf)
    /\ UNCHANGED <<cache, disk, backoff, lastReload, passVars, loopVars, envVars,
                   mainVars, config, ctxDone, chanVars, cleanVars, procCount,
                   passWrites, passHits, pruned, staleWrites, hkDone>>

\* s.cache.SetEntryAtomic(path, sha256.Sum256(leafCert.Raw), info)
WorkerSet(st, i) ==
    LET w == Pool(st)[i]
        f == Head(w.todo)
    IN
    /\ w.pc = "set"
    /\ cache' = SetEntryAtomic(cache, f, Sha256(w.leaf), w.info)
    /\ SetW(st, i, NextEntry(st, w))
    /\ passWrites' = IF st THEN passWrites ELSE passWrites \cup {f}
    /\ staleWrites' = IF st THEN staleWrites \cup {f} ELSE staleWrites
    /\ UNCHANGED <<disk, backoff, facts, lastReload, passVars, loopVars, envVars,
                   mainVars, config, ctxDone, chanVars, cleanVars, procCount,
                   passReads, passHits, pruned, hkDone>>

WorkerStep(st, i) ==
    \/ WorkerSkipCheck(st, i)
    \/ WorkerStatRoot(st, i)
    \/ WorkerReadDir(st, i)
    \/ WorkerFileStat(st, i)
    \/ WorkerLookup(st, i)
    \/ WorkerRead(st, i)
    \/ WorkerSet(st, i)

\* ---------------------------------------------------------------------- Next
Environment == FsWrite \/ FsRemove \/ DirToggle \/ Tick \/ Cancel
Triggers == WatchLoopEvent \/ ReloadConfig \/ ScanAll
Main == MainStartWatcher \/ MainStartServer \/ MainScanAll \/ MainShutdown \/ MainSave
Consumer ==
    \/ LoopExit \/ LoopReceive \/ PassReset \/ PassEnqueue \/ PassProduceCancelled
    \/ PassClose \/ PassWaitDone \/ PassWaitCancelled \/ PassPrune
    \/ PassClearExpired \/ PassSave \/ PassStamp
Workers ==
    \/ \E i \in WorkerIds : WorkerTake(i)
    \/ \E i \in WorkerIds, st \in BOOLEAN : WorkerStep(st, i)

Next == Environment \/ Triggers \/ Main \/ Start \/ Consumer \/ Workers

Spec == Init /\ [][Next]_vars

\* the goroutines are scheduled fairly: the consumer, each worker of the
\* running pass, each worker left by a cancelled pass, and main
Fairness ==
    /\ WF_vars(Consumer)
    /\ \A i \in WorkerIds : WF_vars(WorkerTake(i) \/ WorkerStep(FALSE, i))
    /\ \A i \in WorkerIds : WF_vars(WorkerStep(TRUE, i))
    /\ WF_vars(Main)

\* the behaviours for which liveness is examined: a shutdown over unchanging
\* trees with any number of workers, the trees changing under at most one
\* worker; the cache is kept across reloads
FairInit ==
    /\ Init
    /\ ~config.ClearCacheOnReload
    /\ IF scenario = "churn" THEN config.NumWorkers <= 1 ELSE scenario = "shutdown"

FairSpec == FairInit /\ [][Next]_vars /\ Fairness

\* ------------------------------------------- ProcessDirectory called directly
\* runDryRun calls ProcessDirectory(dir, true) for each root in turn, and a
\* one-shot caller calls it with either flag.  The call is modelled statement
\* by statement with every write it makes to the metrics sink.

\* calls made in one behaviour
MaxCalls == 2

\* shouldWriteMetrics: cfg != nil && !cfg.DryRun
shouldWriteMetrics == ~config.DryRun

\* seen[key]++
Bump(m, k) == IF k \in DOMAIN m THEN [m EXCEPT ![k] = @ + 1] ELSE Put(m, k, 1)

\* the deferred functions of ProcessDirectory: the Observe of CertScanDuration
\* (registered after the backoff test), then the Set of CertLastScan
\* (registered after the stat of the root, and guarded)
Deferred(snk, d, dry, pastStat) ==
    [snk EXCEPT !.durations[d] = @ + 1,
                !.lastScan = IF pastStat /\ ~dry /\ shouldWriteMetrics
                             THEN @ \cup {d} ELSE @]

scanFrame == <<entry, mainPc, config, ctxDone, chanVars, loopVars, passVars, poolVars,
               disk, lastReload, inFlight, cleanVars, passHist, scenario, fsBudget,
               failsLeft, skipFrame, sideVars>>

\* a caller invokes ProcessDirectory(d, dry)
DirectCall ==
    /\ call.pc = "off"
    /\ callsLeft > 0
    /\ callsLeft' = callsLeft - 1
    /\ \E d \in Dirs, dry \in BOOLEAN :
          call' = [IdleCall EXCEPT !.pc = "skipchk", !.dir = d, !.dry = dry]
    /\ UNCHANGED <<sink, duplicates, cache, backoff, facts, now, fs, dirOk, scanFrame, failLog>>

\* return of ProcessDirectory with value val, the sink being snk
Return(val, snk) ==
    /\ call' = IdleCall
    /\ duplicates' = val
    /\ sink' = snk

\* the callback returns nil: WalkDir goes to the next entry, or ends and
\* ProcessDirectory returns seen
Continue(c, snk) ==
    IF Len(c.todo) > 1
    THEN /\ call' = [c EXCEPT !.pc = "fstat", !.todo = Tail(c.todo), !.info = NoInfo,
                              !.leaf = NoCert]
         /\ sink' = snk
         /\ UNCHANGED duplicates
    ELSE Return(c.seen, Deferred(snk, c.dir, c.dry, TRUE))

\* if s.shouldSkipScan(dirPath) { return nil }
CallSkipCheck ==
    /\ call.pc = "skipchk"
    /\ IF StillBackedOff(backoff, call.dir, now)
       THEN /\ Return("nil", sink)
            /\ UNCHANGED backoff
       ELSE /\ call' = [call EXCEPT !.pc = "statroot"]
            /\ backoff' = Drop(backoff, {call.dir})
            /\ UNCHANGED <<sink, duplicates>>
    /\ UNCHANGED <<callsLeft, cache, facts, now, fs, dirOk, scanFrame, failLog>>

\* os.Stat(dirPath); on failure registerScanFailure and return nil. failLog
\* keeps the delays of the attempts on the directory that failed in a row
CallStatRoot ==
    /\ call.pc = "statroot"
    /\ IF dirOk[call.dir]
       THEN /\ call' = [call EXCEPT !.pc = "readdir"]
            /\ failLog' = [failLog EXCEPT ![call.dir] = <<>>]
            /\ UNCHANGED <<sink, duplicates, backoff>>
       ELSE /\ Return("nil", Deferred(sink, call.dir, call.dry, FALSE))
            /\ \E j \in Jitters :
                  LET delay == FailureDelay(backoff, call.dir, now) IN
                  /\ backoff' = Put(backoff, call.dir, now + delay + j)
                  /\ failLog' = [failLog EXCEPT ![call.dir] =
                        Append(@, [at |-> now, delay |-> delay, jitter |-> j])]
    /\ UNCHANGED <<callsLeft, cache, facts, now, fs, dirOk, scanFrame>>

\* filepath.WalkDir: the callback answers every error it is handed with nil,
\* so a root that cannot be read ends the walk and WalkDir returns nil
CallReadDir ==
    LET listing == IF dirOk[call.dir]
                   THEN Walk(call.dir)
                   ELSE <<>>
    IN
    /\ call.pc = "readdir"
    /\ IF listing = <<>>
       THEN Return(call.seen, Deferred(sink, call.dir, call.dry, TRUE))
       ELSE /\ call' = [call EXCEPT !.pc = "fstat", !.todo = listing]
            /\ UNCHANGED <<sink, duplicates>>
    /\ UNCHANGED <<callsLeft, cache, backoff, facts, now, fs, dirOk, scanFrame, failLog>>

\* Cache.GetEntryAtomic: os.Stat(path); on an error the callback counts a
\* parse error for the path and returns nil
CallFileStat ==
    LET f == Head(call.todo) IN
    /\ call.pc = "fstat"
    /\ IF Visible(f)
       THEN /\ call' = [call EXCEPT !.pc = "lookup", !.info = StatOf(f)]
            /\ UNCHANGED <<sink, duplicates>>
       ELSE Continue(call, [sink EXCEPT !.parseErrors[f] = @ + 1])
    /\ UNCHANGED <<callsLeft, cache, backoff, facts, now, fs, dirOk, scanFrame, failLog>>

\* Cache.GetEntryAtomic: the lookup; CertFilesTotal.Inc(); the test on ModTime
\* and Size
CallLookup ==
    LET f == Head(call.todo)
        found == f \in DOMAIN cache
        cached == IF found THEN cache[f] ELSE [fp |-> "", mod |-> 0, size |-> 0]
        counted == [sink EXCEPT !.filesTotal[call.dir] = @ + 1]
    IN
    /\ call.pc = "lookup"
    /\ IF CacheHit(found, cached, call.info)
       THEN Continue(call, counted)
       ELSE /\ call' = [call EXCEPT !.pc = "read"]
            /\ sink' = counted
            /\ UNCHANGED duplicates
    /\ UNCHANGED <<callsLeft, cache, backoff, facts, now, fs, dirOk, scanFrame, failLog>>

\* os.ReadFile, parseLeafCertificate and processCertificate
CallRead ==
    LET f == Head(call.todo)
        body == fs[f].body
        leaf == parseLeafCertificate(body)
        key == Sha256(leaf)
        parsed == [sink EXCEPT !.parseErrors[f] = @ + ParseErrorIncs(Ext(f), body)]
        seen2 == Bump(call.seen, key)
        writes == ~call.dry /\ shouldWriteMetrics
        processed == [parsed EXCEPT
                         !.certsParsed[call.dir] = @ + 1,
                         !.truncated = @ + LongLabels(leaf),
                         !.dupCount = IF writes THEN Put(@, f, seen2[key]) ELSE @]
    IN
    /\ call.pc = "read"
    /\ IF ~Visible(f)
       THEN /\ Continue(call, [sink EXCEPT !.parseErrors[f] = @ + 1])
            /\ UNCHANGED facts
       ELSE IF leaf = NoCert
            THEN /\ Continue(call, parsed)
                 /\ UNCHANGED facts
            ELSE /\ call' = [call EXCEPT !.pc = "set", !.leaf = leaf, !.seen = seen2]
                 /\ sink' = processed
                 /\ facts' = IF writes THEN Put(facts, f, leaf) ELSE facts
                 /\ UNCHANGED duplicates
    /\ UNCHANGED <<callsLeft, cache, backoff, now, fs, dirOk, scanFrame, failLog>>

\* s.cache.SetEntryAtomic(path, fingerprint, info)
CallSet ==
    LET f == Head(call.todo) IN
    /\ call.pc = "set"
    /\ cache' = SetEntryAtomic(cache, f, Sha256(call.leaf), call.info)
    /\ Continue(call, sink)
    /\ UNCHANGED <<callsLeft, backoff, facts, now, fs, dirOk, scanFrame, failLog>>

ProcessDirectory ==
    \/ CallSkipCheck \/ CallStatRoot \/ CallReadDir \/ CallFileStat \/ CallLookup
    \/ CallRead \/ CallSet

\* the trees, the cache and the flags a direct call may find
ScanTrees ==
    { [f \in {"d1/a.pem", "d1/b.crt", "d2/c.pem"} \cup der |->
          CASE f = "d1/b.crt" -> b
            [] f = "d2/c.pem" -> c
            [] f = "d2/e.der" -> e
            [] OTHER -> ImgA] :
        b \in {ImgA, ImgJunk, ImgBad}, c \in {ImgGrown, ImgBad}, e \in {ImgA, ImgBad},
        der \in {{}, {"d2/e.der"}} }

ScanInit ==
    /\ InitCommon
    /\ input = NoInput
    /\ WatchOff
    /\ entry = "direct"
    /\ mainPc = "none"
    /\ scenario = "churn"
    /\ fsBudget = MaxFsChanges
    /\ config.NumWorkers = 1 /\ ~config.ClearCacheOnReload
    /\ fs \in ScanTrees
    /\ callsLeft = MaxCalls
    /\ failsLeft = 0

ScanNext == DirectCall \/ ProcessDirectory \/ FsWrite \/ FsRemove \/ DirToggle \/ Tick

ScanSpec == ScanInit /\ [][ScanNext]_vars

\* ------------------------------------------- direct use of the backoff table
\* registerScanFailure calls made on the table
MaxFailures == 6
\* the clock reaches this many seconds, in steps of a quarter of it
MaxClock == 60
ClockSteps == {MaxClock \div 4}
\* the delays of the last three registerScanFailure calls on a directory
LastThree(log) == IF Len(log) > 3 THEN SubSeq(log, Len(log) - 2, Len(log)) ELSE log

\* what a call on the backoff table leaves alone
BackoffFrame ==
    UNCHANGED <<now, fs, dirOk, scenario, call, sink, duplicates, callsLeft,
                fsBudget, mainVars, config, ctxDone, chanVars, loopVars, passVars,
                poolVars, cache, disk, facts, lastReload, cleanVars, passHist,
                sideVars>>

\* registerScanFailure(dir)
registerScanFailure(d) ==
    /\ failsLeft > 0
    /\ failsLeft' = failsLeft - 1
    /\ \E j \in Jitters :
          LET delay == FailureDelay(backoff, d, now) IN
          /\ backoff' = Put(backoff, d, now + delay + j)
          /\ failLog' = [failLog EXCEPT ![d] =
                LastThree(Append(@, [at |-> now, delay |-> delay, jitter |-> j]))]
    /\ skipFrame' = NoFrame
    /\ BackoffFrame

\* shouldSkipScan(dir): an entry that is no longer in the future is deleted
shouldSkipScan(d) ==
    LET exists == d \in DOMAIN backoff
        nextAllowed == IF exists THEN backoff[d] ELSE -1 IN
    /\ IF StillBackedOff(backoff, d, now)
       THEN /\ skipFrame' = [dir |-> d, nextAllowed |-> nextAllowed, ret |-> TRUE]
            /\ UNCHANGED <<backoff, failLog>>
       ELSE /\ skipFrame' = [dir |-> d, nextAllowed |-> nextAllowed, ret |-> FALSE]
            /\ backoff' = Drop(backoff, {d})
            /\ failLog' = [failLog EXCEPT ![d] = <<>>]
    /\ UNCHANGED failsLeft
    /\ BackoffFrame

\* clearExpiredBackoffs()
clearExpiredBackoffs ==
    /\ backoff' = Drop(backoff, ExpiredBackoffs(backoff, now))
    /\ failLog' = [d \in Dirs |->
                     IF d \in ExpiredBackoffs(backoff, now) THEN <<>> ELSE failLog[d]]
    /\ skipFrame' = NoFrame
    /\ UNCHANGED failsLeft
    /\ BackoffFrame

\* time passes
ClockTick ==
    /\ \E s \in ClockSteps : now + s <= MaxClock /\ now' = now + s
    /\ skipFrame' = NoFrame
    /\ UNCHANGED <<fs, dirOk, scenario, call, sink, duplicates, callsLeft, failLog,
                   failsLeft, fsBudget, mainVars, config, ctxDone, chanVars, loopVars,
                   passVars, poolVars, storeVars, cleanVars, passHist, sideVars>>

BackoffInit ==
    /\ InitCommon
    /\ input = NoInput
    /\ WatchOff
    /\ entry = "direct"
    /\ mainPc = "none"
    /\ scenario = "churn"
    /\ fsBudget = 0
    /\ config.NumWorkers = 1 /\ ~config.ClearCacheOnReload /\ ~config.DryRun
    /\ fs = [f \in {} |-> ImgA]
    /\ callsLeft = 0
    /\ failsLeft = MaxFailures

BackoffNext ==
    \/ \E d \in Dirs : registerScanFailure(d)
    \/ \E d \in Dirs : shouldSkipScan(d)
    \/ clearExpiredBackoffs
    \/ ClockTick

BackoffSpec == BackoffInit /\ [][BackoffNext]_vars

\* ------------------------------------------------- the pure functions
\* blocks of a PEM file taken into account
MaxBlocks == 3
\* a PEM block as pem.Decode returns it: its type and its bytes
BlockTypes == {"CERTIFICATE", "PRIVATE KEY"}
BlockBytes == {"certA", "certB", "badcert"}
PemBlocks == [type : BlockTypes, bytes : BlockBytes]
PemFiles == UNION {[1..n -> PemBlocks] : n \in 0..MaxBlocks}

\* parseLeafCertificate, PEM family: the loop over pem.Decode.  A block of
\* another type is passed over, a CERTIFICATE block that x509 rejects too; the
\* first block that parses is returned, NoCert stands for the error
parseLeafPEMLast(blocks) ==
    LET ok == {k \in 1..Len(blocks) :
                 blocks[k].type = "CERTIFICATE" /\ blocks[k].bytes \in Certs} IN
    IF ok = {} THEN NoCert
    ELSE blocks[CHOOSE k \in ok : \A j \in ok : j <= k].bytes
RECURSIVE parseLeafPEM(_)
parseLeafPEM(blocks) ==
    IF blocks = <<>> THEN NoCert
    ELSE IF Head(blocks).type # "CERTIFICATE" THEN parseLeafPEM(Tail(blocks))
    ELSE IF Head(blocks).bytes \notin Certs THEN parseLeafPEM(Tail(blocks))
    ELSE Head(blocks).bytes

\* common names, as sequences of characters
CnDigiCert == <<"D", "i", "g", "i", "C", "e", "r", "t", " ", "G", "2">>
CnDigiCertUpper == <<"D", "I", "G", "I", "C", "E", "R", "T", " ", "G", "2">>
CnAmazon == <<"A", "m", "a", "z", "o", "n", " ", "R", "S", "A">>
CnBoth == <<"A", "m", "a", "z", "o", "n", "-", "D", "i", "g", "i", "C", "e", "r", "t">>
CnOther == <<"I", "S", "R", "G", " ", "X", "1">>
CnOtherLower == <<"i", "s", "r", "g", " ", "x", "1">>
CnEmpty == <<>>
CommonNames == {CnDigiCert, CnDigiCertUpper, CnAmazon, CnBoth, CnOther, CnOtherLower, CnEmpty}
Digicert == <<"d", "i", "g", "i", "c", "e", "r", "t">>
Amazon == <<"a", "m", "a", "z", "o", "n">>

\* cert.DetermineIssuerCode
DetermineIssuerCodeVendorFirst(subject, issuer) ==
    LET issuerLower == ToLower(issuer) IN
    IF Contains(issuerLower, Digicert) THEN 30
    ELSE IF Contains(issuerLower, Amazon) THEN 31
    ELSE IF EqualFold(subject, issuer) THEN 33
    ELSE 32
DetermineIssuerCode(subject, issuer) ==
    IF EqualFold(subject, issuer) THEN 33
    ELSE LET issuerLower == ToLower(issuer) IN
         IF Contains(issuerLower, Digicert) THEN 30
         ELSE IF Contains(issuerLower, Amazon) THEN 31
         ELSE 32

\* public keys: the dynamic type of cert.PublicKey and its bit length
\* (pub.N.BitLen() of an RSA key, pub.Curve.Params().BitSize of an ECDSA key)
RsaMinBits == 2048
EcdsaMinBits == 256
KeyTypes == {"rsa", "ecdsa", "ed25519", "dsa"}
KeyBits(t) ==
    IF t = "rsa" THEN {1024, RsaMinBits - 1, RsaMinBits, 4096}
    ELSE IF t = "ecdsa" THEN {224, EcdsaMinBits - 1, EcdsaMinBits, 384}
    ELSE {EcdsaMinBits - 1, 1024}
PublicKeys == UNION {[type : {t}, bits : KeyBits(t)] : t \in KeyTypes}

\* cert.IsWeakKey
IsWeakKeyInclusive(key) ==
    IF key.type = "rsa" THEN key.bits <= RsaMinBits
    ELSE IF key.type = "ecdsa" THEN key.bits <= EcdsaMinBits
    ELSE FALSE
IsWeakKey(key) ==
    IF key.type = "rsa" THEN key.bits < RsaMinBits
    ELSE IF key.type = "ecdsa" THEN key.bits < EcdsaMinBits
    ELSE FALSE

\* the calls made: one function on one argument
PureInputs ==
    [fn : {"parseLeafCertificate"}, blocks : PemFiles]
    \cup [fn : {"DetermineIssuerCode"}, subject : CommonNames, issuer : CommonNames]
    \cup [fn : {"IsWeakKey"}, key : PublicKeys]

\* what a call of a pure function leaves alone
PureFrame ==
    UNCHANGED <<input, mainVars, config, ctxDone, chanVars, loopVars, passVars,
                poolVars, storeVars, now, fs, dirOk, scenario, directVars, fsBudget,
                cleanVars, passHist, cacheLog, watchVars, debounce,
                cfgReload,
                watchRun>>

CallParseLeaf ==
    /\ input.fn = "parseLeafCertificate"
    /\ ~output.done
    /\ output' = [done |-> TRUE, val |-> parseLeafPEM(input.blocks)]
    /\ PureFrame

CallDetermineIssuerCode ==
    /\ input.fn = "DetermineIssuerCode"
    /\ ~output.done
    /\ output' = [done |-> TRUE, val |-> DetermineIssuerCode(input.subject, input.issuer)]
    /\ PureFrame

CallIsWeakKey ==
    /\ input.fn = "IsWeakKey"
    /\ ~output.done
    /\ output' = [done |-> TRUE, val |-> IsWeakKey(input.key)]
    /\ PureFrame

PureInit ==
    /\ InitCommon
    /\ input \in PureInputs
    /\ WatchOff
    /\ entry = "direct"
    /\ mainPc = "none"
    /\ scenario = "churn"
    /\ fsBudget = 0
    /\ config.NumWorkers = 1 /\ ~config.ClearCacheOnReload /\ ~config.DryRun
    /\ fs = [f \in {} |-> ImgA]
    /\ callsLeft = 0
    /\ failsLeft = 0

PureNext == CallParseLeaf \/ CallDetermineIssuerCode \/ CallIsWeakKey

PureSpec == PureInit /\ [][PureNext]_vars

\* ------------------------------------------------ direct use of the cache
\* the entries written: the certificate files of the universe as they can be
CachePaths == {"d1/a.pem", "d2/c.pem"}
CacheImages == {ImgA, ImgGrown, ImgTouched}

\* what an operation on the cache leaves alone
CacheFrame ==
    UNCHANGED <<mainVars, config, ctxDone, chanVars, loopVars, passVars, poolVars,
                backoff, facts, lastReload, now, fs, dirOk, scenario, directVars,
                fsBudget, cleanVars, passHist, pureVars, watchVars, debounce,
                cfgReload,
                watchRun>>
Logged(op) == [cacheLog EXCEPT !.op = op, !.held = cache]

\* Cache.SetEntryAtomic(path, fingerprint, info)
CacheSetEntry ==
    /\ \E p \in CachePaths, img \in CacheImages :
          cache' = SetEntryAtomic(cache, p, Sha256(img.body),
                                  [mod |-> img.mod, size |-> img.size])
    /\ cacheLog' = Logged("set")
    /\ UNCHANGED disk
    /\ CacheFrame

\* Cache.Save()
CacheSave ==
    /\ disk' = Save(cache)
    /\ cacheLog' = [Logged("save") EXCEPT !.saved = cache, !.intact = TRUE]
    /\ UNCHANGED cache
    /\ CacheFrame

\* cache.New(filePath): the process starts again with an empty table
CacheNew ==
    /\ cache' = EmptyMap
    /\ cacheLog' = Logged("new")
    /\ UNCHANGED disk
    /\ CacheFrame

\* Cache.Load()
CacheLoad ==
    /\ cache' = Load(cache, disk)
    /\ cacheLog' = Logged("load")
    /\ UNCHANGED disk
    /\ CacheFrame

\* the file is deleted, truncated or overwritten by something else
FileDamage ==
    /\ \E d \in {NoDisk, GarbageFile, NullFile} : disk' = d
    /\ cacheLog' = [Logged("damage") EXCEPT !.intact = FALSE]
    /\ UNCHANGED cache
    /\ CacheFrame

CacheInit ==
    /\ InitCommon
    /\ input = NoInput
    /\ WatchOff
    /\ entry = "direct"
    /\ mainPc = "none"
    /\ scenario = "churn"
    /\ fsBudget = 0
    /\ config.NumWorkers = 1 /\ ~config.ClearCacheOnReload /\ ~config.DryRun
    /\ fs = [f \in {} |-> ImgA]
    /\ callsLeft = 0
    /\ failsLeft = 0

CacheNext == CacheSetEntry \/ CacheSave \/ CacheNew \/ CacheLoad \/ FileDamage

CacheSpec == CacheInit /\ [][CacheNext]_vars

\* ------------------------------------------------- the file system watcher
\* changes of the watched trees in one behaviour
MaxTreeChanges == 3
\* events waiting in w.watcher.Events
MaxEvents == 2

\* what the watcher and the changes of its trees leave alone
WatchFrame ==
    UNCHANGED <<mainVars, config, ctxDone, loopVars, passVars, poolVars, storeVars,
                now, fs, dirOk, scenario, directVars, fsBudget, cleanVars, passHist,
                pureVars, cacheLog, debounce,
                cfgReload>>

\* fsnotify reports what happens to a registered directory and to the entries
\* of one
Reported(path) == path \in watchedDirs \/ ParentOf(path) \in watchedDirs
Notify(evs) ==
    events' = events \o SelectSeq(evs, LAMBDA e : Reported(e.name))
Event(ops, path) == [op |-> ops, name |-> path]

\* addDirectoryToWatcher(dirPath): cleanupStaleWatchers, then the walk that
\* registers every directory of the tree not yet registered
cleanupStaleWatchers(w) == {p \in w : tree[p] # "none"}
\* the walk: the callback returns nil for a directory that is registered
\* already, before it looks at the name, and SkipDir for one named old or
\* working; when Add fails it logs and returns nil, and the walk goes on
\* below.  A directory is visited when the walk descends every directory
\* from dirPath down to it
Descends(w, q) == q \in w \/ ~SkipSubtree(BaseName(q))
Visited(w, dirPath) ==
    {p \in DOMAIN tree :
        /\ tree[p] = "dir"
        /\ p = dirPath \/ Below(p, dirPath)
        /\ \A q \in DOMAIN tree :
              ((q = dirPath \/ Below(q, dirPath)) /\ Below(p, q))
                 => (tree[q] = "dir" /\ Descends(w, q))}
addDirectoryStopOnFail(w, dirPath) ==
    LET kept == cleanupStaleWatchers(w) IN
    kept \cup {p \in Visited(kept, dirPath) :
                 /\ ~SkipSubtree(BaseName(p))
                 /\ \A q \in Visited(kept, dirPath) :
                       (q = p \/ Below(p, q)) => q \notin watchRun.addFails}
addDirectoryToWatcher(w, dirPath) ==
    LET kept == cleanupStaleWatchers(w) IN
    kept \cup {p \in Visited(kept, dirPath) :
                 ~SkipSubtree(BaseName(p)) /\ p \notin watchRun.addFails}
\* the loop of Start over cfg.CertDirs
RECURSIVE AddRoots(_, _)
AddRoots(w, roots) ==
    IF roots = <<>> THEN w
    ELSE AddRoots(addDirectoryToWatcher(w, Head(roots)), Tail(roots))
\* removeDirectoryFromWatcher(dirPath)
removeDirectoryOnly(w, dirPath) == w \ {dirPath}
removeDirectoryFromWatcher(w, dirPath) == {p \in w : ~HasPrefix(p, dirPath)}

\* Watcher.Start: the handle is made, every root of cfg.CertDirs is added,
\* setupConfigWatcher makes the second handle and starts watchConfigLoop when
\* a config file is watched, then watchLoop is started
WatcherStart ==
    /\ watchPc = "new"
    /\ watchPc' = "running"
    /\ watchedDirs' =
          AddRoots(watchedDirs, SelectSeq(WatchRootSeq, LAMBDA r : r \in DOMAIN tree))
    /\ watchRun' = [watchRun EXCEPT
                      !.watcher = "open",
                      !.watchLoop = "running",
                      !.configWatcher = IF watchRun.watchConfig THEN "open" ELSE "nil",
                      !.configLoop = IF watchRun.watchConfig THEN "running" ELSE "none"]
    /\ UNCHANGED <<tree, events, handled, treeBudget, chanVars>>
    /\ WatchFrame

\* the loop over w.watchedDirs of Watcher.Stop
ClearWatchedNone(w) == w
ClearWatched(w) == {}
\* handle.Close() when the handle is not nil
Close(h) == IF h = "nil" THEN "nil" ELSE "closed"

\* Watcher.Stop: both handles are closed, which closes their event channels,
\* and watchedDirs is emptied.  A timer of watchConfigLoop is not touched
WatcherStop ==
    /\ watchPc = "running"
    /\ watchPc' = "stopped"
    /\ watchRun' = [watchRun EXCEPT !.watcher = Close(@), !.configWatcher = Close(@)]
    /\ watchedDirs' = ClearWatched(watchedDirs)
    /\ events' = <<>>
    /\ UNCHANGED <<tree, handled, treeBudget, chanVars>>
    /\ WatchFrame

\* watchLoop returns: ctx.Done() is readable, or the event channel is closed
WatchLoopExit ==
    /\ watchRun.watchLoop = "running"
    /\ ~(~ctxDone /\ watchRun.watcher # "closed")
    /\ watchRun' = [watchRun EXCEPT !.watchLoop = "exited"]
    /\ UNCHANGED <<watchVars, chanVars>>
    /\ WatchFrame

\* watchConfigLoop returns likewise; its timer is a local variable that
\* nothing stops
ConfigLoopExit ==
    /\ watchRun.configLoop = "running"
    /\ ~(~ctxDone /\ watchRun.configWatcher # "closed")
    /\ watchRun' = [watchRun EXCEPT !.configLoop = "exited"]
    /\ UNCHANGED <<watchVars, chanVars>>
    /\ WatchFrame

\* watchLoop receives an event: a removal of a path that is gone or is a
\* directory unregisters it and every registered path it prefixes; a create,
\* write, remove or rename triggers a reload
WatchLoopHandle ==
    /\ watchRun.watchLoop = "running"
    /\ events # <<>>
    /\ LET ev == Head(events) IN
       /\ events' = Tail(events)
       /\ watchedDirs' =
             IF "Remove" \in ev.op /\ tree[ev.name] \in {"none", "dir"}
             THEN removeDirectoryFromWatcher(watchedDirs, ev.name)
             ELSE watchedDirs
       /\ IF ev.op \cap ReloadOps # {} THEN TriggerReload ELSE UNCHANGED chanVars
       /\ handled' = [op |-> ev.op, name |-> ev.name, before |-> watchedDirs,
                      pending |-> reloadCh, scanning |-> scanPc # "select"]
    /\ UNCHANGED <<watchPc, tree, treeBudget, watchRun>>
    /\ WatchFrame

\* the trees change
TreeStep ==
    /\ watchPc = "running"
    /\ treeBudget > 0
    /\ Len(events) < MaxEvents
    /\ treeBudget' = treeBudget - 1
    /\ UNCHANGED <<watchPc, watchedDirs, handled, chanVars, watchRun>>
    /\ WatchFrame

\* mkdir
Mkdir ==
    /\ TreeStep
    /\ \E p \in {PathRoot, PathSub, PathSub2} :
          /\ tree[p] = "none"
          /\ IF p \in WatchRoots THEN TRUE ELSE tree[ParentOf(p)] = "dir"
          /\ tree' = [tree EXCEPT ![p] = "dir"]
          /\ Notify(<<Event({"Create"}, p)>>)

\* rm -r of a directory, or mv of it to a place outside the trees
RemoveOrRenameDir ==
    /\ TreeStep
    /\ \E p \in {PathRoot, PathSub, PathSub2}, op \in {"Remove", "Rename"} :
          /\ tree[p] = "dir"
          /\ tree' = [q \in DOMAIN tree |->
                        IF q = p \/ Below(q, p) THEN "none" ELSE tree[q]]
          /\ Notify(<<Event({op}, p)>>)

\* a file is written, deleted, or has its mode changed
FileChange ==
    /\ TreeStep
    /\ \/ /\ tree[PathRoot] = "dir"
          /\ tree' = [tree EXCEPT ![PathFile] = "file"]
          /\ Notify(<<Event(IF tree[PathFile] = "file" THEN {"Write"} ELSE {"Create"},
                            PathFile)>>)
       \/ /\ tree[PathFile] = "file"
          /\ tree' = [tree EXCEPT ![PathFile] = "none"]
          /\ Notify(<<Event({"Remove"}, PathFile)>>)
       \/ /\ tree[PathFile] = "file"
          /\ UNCHANGED tree
          /\ Notify(<<Event({"Chmod"}, PathFile)>>)

\* watchLoop takes the event at the head of w.watcher.Events
Handling == events # <<>> /\ events' = Tail(events) /\ watchPc' = "running"

WatchInit ==
    /\ InitCommon
    /\ input = NoInput
    /\ entry = "direct"
    /\ mainPc = "none"
    /\ scenario = "churn"
    /\ fsBudget = 0
    /\ config.NumWorkers = 1 /\ ~config.ClearCacheOnReload /\ ~config.DryRun
    /\ fs = [f \in {} |-> ImgA]
    /\ callsLeft = 0
    /\ failsLeft = 0
    /\ watchPc = "new"
    /\ watchRun = NoWatchRun
    /\ tree \in {t \in [WatchPaths -> {"dir", "file", "none"}] :
                    /\ t[PathRoot] = "dir"
                    /\ t[PathFile] = "file"
                    /\ t[PathSub] \in {"dir", "none"}
                    /\ t[PathSub2] \in {"dir", "none"}}
    /\ treeBudget = MaxTreeChanges

WatchNext ==
    \/ WatcherStart \/ WatcherStop \/ WatchLoopHandle
    \/ Mkdir \/ RemoveOrRenameDir \/ FileChange

WatchSpec == WatchInit /\ [][WatchNext]_vars

\* ------------------------------------- the watcher beside the scan loop
\* changes of the watched trees while the scan loop runs
MaxBurst == 2

TriggerInit ==
    /\ InitCommon
    /\ input = NoInput
    /\ entry = "api"
    /\ mainPc = "none"
    /\ scenario = "mixed"
    /\ config.NumWorkers = 1 /\ ~config.ClearCacheOnReload /\ ~config.DryRun
    /\ fs \in InitTrees
    /\ callsLeft = 0
    /\ failsLeft = 0
    /\ fsBudget = 0
    /\ watchPc = "new"
    /\ watchRun = NoWatchRun
    /\ tree = [p \in WatchPaths |->
                 IF p = PathFile THEN "file" ELSE IF p = PathRoot THEN "dir" ELSE "none"]
    /\ treeBudget = MaxBurst

\* the scan loop of a process that is not shut down
TriggerNext ==
    \/ Start \/ LoopReceive \/ PassReset \/ PassEnqueue \/ PassClose
    \/ PassWaitDone \/ PassPrune \/ PassClearExpired \/ PassSave \/ PassStamp
    \/ \E i \in WorkerIds : WorkerTake(i)
    \/ \E i \in WorkerIds : WorkerStep(FALSE, i)
    \/ WatcherStart \/ WatchLoopHandle \/ Mkdir \/ RemoveOrRenameDir \/ FileChange

TriggerSpec == TriggerInit /\ [][TriggerNext]_vars

\* ------------------------------------------------ the config file watcher
\* const debounce, in seconds
Debounce == 2
\* the clock of the config watcher stops here
MaxDebounceClock == 7
\* the events counted in one burst
MaxBurstLen == 3

\* the operations on which watchConfigLoop arms its timer
DebounceOps == {"Write", "Create", "Rename"}

\* timer.Stop(): the callback of the timer is pending no more; a timer that
\* is nil or has fired is not among the pending ones
StopTimerNoop(pending, timer) == pending
StopTimer(pending, timer) == pending \ {timer}

DebounceFrame ==
    UNCHANGED <<mainVars, config, ctxDone, loopVars, passVars, poolVars, storeVars,
                fs, dirOk, scenario, directVars, fsBudget, cleanVars, passHist,
                pureVars, cacheLog, watchVars,
                cfgReload,
                watchRun>>

\* a callback of time.AfterFunc runs when its time has come, before the loop
\* receives an event that arrives then or later
NoneDue == \A d \in debounce.pending : d > now

\* watchConfigLoop receives an event of the config file: a write, create or
\* rename stops the timer and arms a new one
ConfigEvent ==
    /\ watchRun.configLoop = "running"
    /\ watchRun.configWatcher = "open"
    /\ NoneDue
    /\ \E op \in Ops :
          debounce' =
             IF op \in DebounceOps
             THEN [debounce EXCEPT
                     !.timer = now + Debounce,
                     !.pending = StopTimer(debounce.pending, debounce.timer)
                                    \cup {now + Debounce},
                     !.seen = op,
                     !.last = now,
                     !.burst = IF debounce.last # NoTimer /\ now - debounce.last < Debounce
                               THEN Min(debounce.burst + 1, MaxBurstLen) ELSE 1,
                     !.since = 0]
             ELSE [debounce EXCEPT !.seen = op]
    /\ UNCHANGED <<now, chanVars>>
    /\ DebounceFrame

\* the callback of a timer runs: reloadConfig, which triggers a reload of the
\* scanner unless config.Load fails
DebounceFire ==
    /\ \E d \in debounce.pending :
          /\ d <= now
          /\ debounce' = [debounce EXCEPT !.pending = debounce.pending \ {d},
                                          !.since = Min(debounce.since + 1, 2),
                                          !.firedAt = now]
    /\ \E loaded \in BOOLEAN :
          IF loaded THEN TriggerReload ELSE UNCHANGED chanVars
    /\ UNCHANGED now
    /\ DebounceFrame

\* a second passes
DebounceTick ==
    /\ NoneDue
    /\ now < MaxDebounceClock
    /\ now' = now + 1
    /\ UNCHANGED <<debounce, chanVars>>
    /\ DebounceFrame

\* Watcher.Start has run with a config file to watch
Started ==
    [watchConfig |-> TRUE, watcher |-> "open", configWatcher |-> "open",
     watchLoop |-> "running", configLoop |-> "running", addFails |-> {}]

DebounceInit ==
    /\ InitCommon
    /\ input = NoInput
    /\ watchPc = "running"
    /\ watchRun = Started
    /\ tree = [p \in WatchPaths |-> "none"]
    /\ treeBudget = 0
    /\ entry = "direct"
    /\ mainPc = "none"
    /\ scenario = "churn"
    /\ fsBudget = 0
    /\ config.NumWorkers = 1 /\ ~config.ClearCacheOnReload /\ ~config.DryRun
    /\ fs = [f \in {} |-> ImgA]
    /\ callsLeft = 0
    /\ failsLeft = 0

DebounceNext == ConfigEvent \/ DebounceFire \/ DebounceTick

DebounceSpec == DebounceInit /\ [][DebounceNext]_vars

\* --------------------------------------------------- the config reload
\* what yaml.Unmarshal leaves in Default() for a document (the documents
\* considered leave clear_cache_on_reload off)
ConfigDocs == [NumWorkers : 0..MaxWorkers, ClearCacheOnReload : {FALSE}, DryRun : BOOLEAN]
\* what the config file can hold
ConfigFiles ==
    {NoConfigFile, [NoConfigFile EXCEPT !.kind = "garbage"],
     [NoConfigFile EXCEPT !.kind = "baddirs"]}
        \cup {[kind |-> "yaml", cfg |-> c] : c \in ConfigDocs}
\* config.Validate: the worker count; "baddirs" stands for a document that
\* fails one of the other tests (a certificate directory that is missing, a
\* port out of range, ...)
Validate(file) == file.kind = "yaml" /\ file.cfg.NumWorkers >= 1
\* config.Load(path): the error it returns and the global snapshot afterwards.
\* config.Set is reached only when stat, read, parse and Validate succeeded
ConfigLoadUnvalidated(snapshot, file) ==
    IF file.kind \in {"none", "garbage"}
    THEN [err |-> TRUE, snapshot |-> snapshot]
    ELSE [err |-> FALSE, snapshot |-> file.cfg]
ConfigLoad(snapshot, file) ==
    IF file.kind \in {"none", "garbage"} \/ ~Validate(file)
    THEN [err |-> TRUE, snapshot |-> snapshot]
    ELSE [err |-> FALSE, snapshot |-> file.cfg]

ReloadFrame ==
    UNCHANGED <<mainVars, ctxDone, loopVars, poolVars, storeVars,
                now, fs, dirOk, scenario, fsBudget, cleanVars, passHist,
                failLog, failsLeft, skipFrame, pureVars, cacheLog, watchVars,
                debounce,
                watchRun>>

\* the config file is rewritten, damaged or removed
EditConfig ==
    /\ \E f \in ConfigFiles \ {cfgReload.file} :
          cfgReload' = [cfgReload EXCEPT !.file = f]
    /\ UNCHANGED <<config, chanVars, passVars, call, sink, duplicates, callsLeft>>
    /\ ReloadFrame

\* reloadConfig: config.Load; on an error nothing more, else TriggerReload
ReloadConfigFile ==
    /\ LET r == ConfigLoad(config, cfgReload.file) IN
       /\ config' = r.snapshot
       /\ cfgReload' = [cfgReload EXCEPT !.runs = 1 - @, !.err = r.err]
       /\ IF r.err THEN UNCHANGED chanVars ELSE TriggerReload
    /\ UNCHANGED <<passVars, call, sink, duplicates, callsLeft>>
    /\ ReloadFrame

\* performScan reads cfg := config.Get() and a worker of the pass calls
\* ProcessDirectory(dir, false)
PassCall ==
    /\ call.pc = "off"
    /\ callsLeft > 0
    /\ callsLeft' = callsLeft - 1
    /\ passCfg' = config
    /\ \E d \in Dirs : call' = [IdleCall EXCEPT !.pc = "skipchk", !.dir = d]
    /\ UNCHANGED <<config, chanVars, jobIdx, dirJobs, jobsClosed, sink, duplicates,
                   cfgReload>>
    /\ ReloadFrame

ReloadInit ==
    /\ InitCommon
    /\ input = NoInput
    /\ WatchOff
    /\ entry = "direct"
    /\ mainPc = "none"
    /\ scenario = "churn"
    /\ fsBudget = 0
    /\ config.NumWorkers = 1 /\ ~config.ClearCacheOnReload
    /\ fs \in InitTrees
    /\ callsLeft = 1
    /\ failsLeft = 0

ReloadNext == EditConfig \/ ReloadConfigFile \/ PassCall \/ ProcessDirectory

ReloadSpec == ReloadInit /\ [][ReloadNext]_vars

\* ------------------------------------------------ the watcher's shutdown
ShutdownInit ==
    /\ InitCommon
    /\ input = NoInput
    /\ entry = "direct"
    /\ mainPc = "none"
    /\ scenario = "mixed"
    /\ fsBudget = 0
    /\ config.NumWorkers = 1 /\ ~config.ClearCacheOnReload /\ ~config.DryRun
    /\ fs = [f \in {} |-> ImgA]
    /\ callsLeft = 0
    /\ failsLeft = 0
    /\ watchPc = "new"
    /\ watchRun \in {NoWatchRun, [NoWatchRun EXCEPT !.watchConfig = TRUE]}
    /\ tree = [p \in WatchPaths |->
                 IF p = PathFile THEN "file" ELSE IF p = PathRoot THEN "dir" ELSE "none"]
    /\ treeBudget = 1

ShutdownNext ==
    \/ WatcherStart \/ Cancel \/ WatcherStop \/ WatchLoopExit \/ ConfigLoopExit
    \/ FileChange \/ WatchLoopHandle
    \/ ConfigEvent \/ DebounceFire \/ DebounceTick

ShutdownSpec == ShutdownInit /\ [][ShutdownNext]_vars

\* ------------------------------------------------- the registration walk
\* the trees Start may find: a directory exists only inside a directory
RegisterTrees ==
    {t \in [RegisterPaths -> {"dir", "none"}] :
        /\ t[PathRoot] = "dir"
        /\ \A p, q \in RegisterPaths : (Below(p, q) /\ t[p] = "dir") => t[q] = "dir"}
\* the directories the watch handle may refuse
FailingAdds == SUBSET {PathRoot, PathSub, PathRoot2}

RegisterInit ==
    /\ InitCommon
    /\ input = NoInput
    /\ entry = "direct"
    /\ mainPc = "none"
    /\ scenario = "churn"
    /\ fsBudget = 0
    /\ config.NumWorkers = 1 /\ ~config.ClearCacheOnReload /\ ~config.DryRun
    /\ fs = [f \in {"d1/Old/x.pem", "d1/a.pem", "d2/c.pem"} |-> ImgA]
    /\ callsLeft = 1
    /\ failsLeft = 0
    /\ watchPc = "new"
    /\ \E fails \in FailingAdds : watchRun = [NoWatchRun EXCEPT !.addFails = fails]
    /\ tree \in RegisterTrees
    /\ treeBudget = 0

RegisterNext == WatcherStart \/ DirectCall \/ ProcessDirectory

RegisterSpec == RegisterInit /\ [][RegisterNext]_vars

\* =================================================================== claims
Housekeeping == {"prune", "clear", "save", "stamp"}

\* C1: no two executions of performScan overlap in time: at most one pass is
\* between its start and its return, however many triggers arrive meanwhile.
C1_NoOverlap == inFlight <= 1
\* a trigger arrived while the workers of a pass were running
C1_Witness ==
    /\ inFlight = 1
    /\ reloadCh = 1
    /\ \E i \in WorkerIds : InPD(workers[i])

\* C2: the reload signal is a single slot: any number of TriggerReload calls
\* made before the consumer's next receive leave exactly one pending signal,
\* a call made while one is pending is a no-op, and the receive leaves none.
C2_SingleSlot ==
    /\ reloadCh \in {0, 1}
    /\ (trigCount >= 1) <=> (reloadCh = 1)
\* two calls since the last receive, one signal pending
C2_Witness == trigCount = 2 /\ reloadCh = 1

\* C3: with the consumer loop running and no shutdown, a TriggerReload call is
\* followed by a pass that begins after it; a signal is received only between
\* passes, and each receipt starts one pass.
C3_TriggerServed ==
    /\ (loopState = "running" /\ trigCount > 0 /\ ~ctxDone)
          ~> (trigCount = 0 \/ ctxDone)
    /\ [][reloadCh' < reloadCh =>
             /\ scanPc = "select" /\ inFlight = 0
             /\ scanPc' = "reset" /\ inFlight' = 1]_vars
\* a pass begins after an earlier one has completed
C3_Witness ==
    /\ loopState = "running"
    /\ scanPc = "reset"
    /\ lastReload # -1
    /\ trigCount = 0
    /\ ~ctxDone

\* C4: after main has started the watcher and the HTTP server, the initial
\* scan it requests through ScanAll is eventually performed (unless shutdown
\* comes first).
C4_InitialScan ==
    (entry = "main" /\ mainPc = "wait") ~> (inFlight > 0 \/ ctxDone)

\* C5: in a pass that is not cancelled every configured directory is sent
\* exactly once and processed by exactly one worker; none is skipped, none is
\* processed twice.
C5_EachDirOnce ==
    /\ \A d \in Dirs : procCount[d] <= 1
    /\ (scanPc = "prune" /\ ~ctxDone) => \A d \in Dirs : procCount[d] = 1

\* C6: every pass terminates: the producer always has room in the job queue,
\* every worker exits once the queue is drained or cancellation fires, and the
\* pass returns, also when every directory fails or is backed off.
C6_PassTerminates ==
    /\ [](scanPc = "produce" /\ jobIdx <= Len(CertDirs) => ENABLED PassEnqueue)
    /\ []<>(inFlight = 0)
    /\ []<>(\A i \in WorkerIds : workers[i].pc = "off" /\ stale[i].pc = "off")
\* a pass in which both roots failed has returned
C6_Witness ==
    /\ scanPc = "select"
    /\ loopState = "running"
    /\ lastReload # -1
    /\ \A d \in Dirs : d \in DOMAIN backoff /\ ~dirOk[d]

\* C7: once cancellation has fired during a pass, no further directory is
\* enqueued and the pass returns without pruning, backoff clearing, cache
\* persistence or the timestamp.
C7_CancelStopsPass ==
    [][ctxDone =>
          /\ (scanPc = "produce" => Len(dirJobs') <= Len(dirJobs))
          /\ (scanPc = "wait" => scanPc' \notin Housekeeping)]_vars

C11_FactsKept ==
    (stable /\ ~ctxDone /\ inFlight = 1 /\ scanPc = "stamp") => facts = prevFacts

\* C10: a file is read and parsed only when its path has no cache entry or the
\* entry's modification time or size differs from the file's; otherwise the
\* worker moves on with no read, no metric and no cache write.
C10_CacheHitSkip ==
    [][\A st \in BOOLEAN, i \in WorkerIds :
          LET w == Pool(st)[i]
              w2 == Pool(st)'[i]
              f == Head(w.todo)
              current == /\ f \in DOMAIN cache
                         /\ cache[f].mod = w.info.mod
                         /\ cache[f].size = w.info.size
          IN  inFlight' = inFlight =>
                /\ (w.pc = "lookup" /\ w2 # w) =>
                      IF current
                      THEN /\ w2.pc \notin {"read", "set"}
                           /\ UNCHANGED <<cache, facts, passReads, passWrites>>
                      ELSE w2.pc = "read"
                /\ (w2.pc = "read" /\ w.pc # "read") => (w.pc = "lookup" /\ ~current)
                /\ (w2.pc = "set" /\ w.pc # "set") => w.pc = "read"]_vars
\* in one pass a file was skipped on a current entry and another was read
C10_Witness == passHits # {} /\ passReads # {}

\* the files of root d that hold a certificate, and the count per fingerprint
CertFiles(d) ==
    {f \in Files : DirOf(f) = d /\ Visible(f) /\ fs[f].body \in Certs}
TrueCounts(d) ==
    [k \in {Sha256(fs[f].body) : f \in CertFiles(d)} |->
        Cardinality({f \in CertFiles(d) : Sha256(fs[f].body) = k})]

\* C12: a directory that is still backed off is skipped entirely: the call
\* returns nil at once, with no stat of the root, no walk, no read, no write to
\* the sink or the cache and no change of any backoff entry.
C12_BackedOffSkipped ==
    [][(/\ call.pc = "skipchk"
        /\ call.dir \in DOMAIN backoff
        /\ now < backoff[call.dir]
        /\ call' # call)
       => /\ call'.pc = "off"
          /\ duplicates' = "nil"
          /\ UNCHANGED <<sink, facts, cache, backoff>>]_vars
\* two calls were made: the first failed on the root, the second was skipped
C12_Witness ==
    /\ call.pc = "off"
    /\ callsLeft = 0
    /\ duplicates = "nil"
    /\ \E d \in Dirs :
          /\ d \in DOMAIN backoff /\ now < backoff[d]
          /\ sink.durations[d] = 1
          /\ \A e \in Dirs \ {d} : sink.durations[e] = 0 /\ e \notin DOMAIN backoff

\* C13: a directory-level error affects only that directory: a worker whose
\* ProcessDirectory finds the root missing or not a directory registers a backoff
\* failure for it and returns with no facts written; the backoff entries of the
\* other directories are unchanged, and every other directory of the pass is
\* still handed to ProcessDirectory.
C13_DirErrorIsolated ==
    /\ [][\A st \in BOOLEAN, i \in WorkerIds :
            (/\ Pool(st)[i].pc = "statroot"
             /\ ~dirOk[Pool(st)[i].dir]
             /\ Pool(st)'[i] # Pool(st)[i]
             /\ Pool(~st)' = Pool(~st))
            => LET d == Pool(st)[i].dir IN
               /\ d \in DOMAIN backoff' /\ backoff'[d] > now
               /\ DOMAIN backoff' = DOMAIN backoff \cup {d}
               /\ \A e \in DOMAIN backoff \ {d} : backoff'[e] = backoff[e]
               /\ UNCHANGED <<facts, cache>>
               /\ ~InPD(Pool(st)'[i])]_vars
    /\ []((scanPc = "prune" /\ ~ctxDone /\ \E d \in Dirs : procCount[d] >= 1)
            => \A d \in Dirs : procCount[d] = 1)
\* a pass is through its workers: the root of d2 failed, d1 was walked and read
C13_Witness ==
    /\ scanPc = "prune"
    /\ ~ctxDone
    /\ "d2" \in DOMAIN backoff /\ now < backoff["d2"]
    /\ "d1" \notin DOMAIN backoff
    /\ \A d \in Dirs : procCount[d] = 1
    /\ "d1/a.pem" \in passReads
    /\ passReads \cap {"d2/c.pem", "d2/e.der"} = {}
    /\ passHits \cap {"d2/c.pem", "d2/e.der"} = {}

\* C14: a walk-level error registers a backoff failure for the root, and the
\* results gathered before it are still returned.
C14_WalkErrorBackoff ==
    [][(call.pc = "readdir" /\ ~dirOk[call.dir] /\ call' # call)
       => /\ call.dir \in DOMAIN backoff'
          /\ backoff'[call.dir] > now
          /\ duplicates' = call.seen]_vars

\* C15: a file whose leaf extraction fails is skipped without side effects on
\* the directory: no backoff entry changes, no cache entry is written, the
\* fingerprint map is unchanged, and the walk goes on to the remaining files.
C15_ParseFailureSkipped ==
    [][(/\ call.pc = "read"
        /\ Visible(Head(call.todo))
        /\ fs[Head(call.todo)].body \notin Certs
        /\ call' # call)
       => /\ UNCHANGED <<backoff, cache, facts>>
          /\ IF Len(call.todo) > 1
             THEN /\ call'.pc = "fstat"
                  /\ call'.todo = Tail(call.todo)
                  /\ call'.seen = call.seen
             ELSE call'.pc = "off" /\ duplicates' = call.seen]_vars
\* the first call is past d2/c.pem, which did not parse, and at d2/e.der
C15_Witness ==
    /\ callsLeft = MaxCalls - 1
    /\ call.pc = "lookup"
    /\ call.todo = <<"d2/e.der">>
    /\ "d2/c.pem" \in DOMAIN fs /\ fs["d2/c.pem"].body = "badcert"
    /\ sink.parseErrors["d2/c.pem"] = 1
    /\ "d2/c.pem" \notin DOMAIN cache
    /\ call.seen = EmptyMap
    /\ backoff = EmptyMap

\* C16: every file-level error (stat, read, parse, PEM decode, also a PEM file
\* with no CERTIFICATE block) adds one to the parse-error counter of the file,
\* and the walk goes on.
C16_FileErrorCounted ==
    [][(/\ call' # call
        /\ \/ call.pc = "fstat" /\ ~Visible(Head(call.todo))
           \/ call.pc = "read" /\ ~Visible(Head(call.todo))
           \/ call.pc = "read" /\ Visible(Head(call.todo))
                /\ fs[Head(call.todo)].body \notin Certs)
       => /\ sink'.parseErrors[Head(call.todo)] = sink.parseErrors[Head(call.todo)] + 1
          /\ call'.pc \in {"fstat", "off"}]_vars

\* C17: under dry-run (the dryRun argument, or DryRun in the config snapshot)
\* no write reaches the metrics sink.
C17_DryRunSilent ==
    [][(call.pc # "off" /\ (call.dry \/ config.DryRun))
       => UNCHANGED <<sink, facts>>]_vars

\* the delay of the k-th logged call with its jitter, and what was left of it
\* when the next logged call was made
TotalDelay(log, k) == log[k].delay + log[k].jitter
Remaining(log, k) == log[k].at + TotalDelay(log, k) - log[k + 1].at

\* C18 as stated: three consecutive RegisterFailure calls on a directory, at any
\* times, give non-decreasing delays (next-allowed-time minus the time of the
\* call), and every delay is at most 10 minutes.
C18_Original ==
    \A d \in Dirs :
        /\ \A k \in 1..Len(failLog[d]) : TotalDelay(failLog[d], k) <= MaxBackoff
        /\ \A k \in 1..(Len(failLog[d]) - 1) :
              TotalDelay(failLog[d], k) <= TotalDelay(failLog[d], k + 1)
\* C18: of three consecutive RegisterFailure calls on a directory, a call made
\* while at least half of the previous delay is still to run gets a delay
\* before jitter that is not smaller than the previous one; every delay before
\* jitter is at most 10 minutes and the jitter adds less than 10 seconds.
C18_Growth ==
    \A d \in Dirs :
        /\ \A k \in 1..Len(failLog[d]) :
              /\ failLog[d][k].delay <= MaxBackoff
              /\ TotalDelay(failLog[d], k) < MaxBackoff + JitterSpan
        /\ \A k \in 1..(Len(failLog[d]) - 1) :
              2 * Remaining(failLog[d], k) >= TotalDelay(failLog[d], k)
              => failLog[d][k + 1].delay >= failLog[d][k].delay
\* three calls in quick succession, the last of them at the cap
C18_Witness ==
    \E d \in Dirs :
        /\ Len(failLog[d]) = 3
        /\ \A k \in 1..2 : 2 * Remaining(failLog[d], k) >= TotalDelay(failLog[d], k)
        /\ failLog[d][1].delay < failLog[d][2].delay
        /\ failLog[d][3].delay = MaxBackoff

\* C19: ShouldSkip(dir) returns true and leaves the backoff table unchanged when
\* now is before the directory's next-allowed-time; otherwise it returns false
\* and afterwards the table has no entry for the directory, the entries of the
\* other directories being untouched.
C19_ShouldSkip ==
    [][skipFrame' # NoFrame =>
         LET d == skipFrame'.dir IN
         IF d \in DOMAIN backoff /\ now < backoff[d]
         THEN skipFrame'.ret /\ backoff' = backoff
         ELSE /\ ~skipFrame'.ret
              /\ DOMAIN backoff' = DOMAIN backoff \ {d}
              /\ \A e \in DOMAIN backoff' : backoff'[e] = backoff[e]]_vars
\* the call came at the very next-allowed-time: the entry is gone, the other
\* directory is still backed off
C19_Witness ==
    /\ skipFrame # NoFrame
    /\ ~skipFrame.ret
    /\ skipFrame.nextAllowed = now
    /\ skipFrame.dir \notin DOMAIN backoff
    /\ \E e \in DOMAIN backoff : now < backoff[e]

\* C20: the map a call returns gives, for each leaf fingerprint, the number of
\* certificate files of the directory whose leaf has that fingerprint (the
\* trees not having changed).
C20_DuplicateCounts ==
    [][(/\ call.pc \notin {"off", "skipchk", "statroot"}
        /\ call'.pc = "off"
        /\ fsBudget = MaxFsChanges)
       => duplicates' = TrueCounts(call.dir)]_vars

\* C26: GetEntryAtomic is one atomic step with respect to the other cache
\* operations: while a worker is between the stat and the lookup of its
\* GetEntryAtomic call (no shutdown having been signalled), no SetEntryAtomic,
\* Clear or PruneNonExisting of another goroutine changes the table.
C26_GetEntryAtomic ==
    [][(~ctxDone' /\ \E i \in WorkerIds :
            workers[i].pc = "lookup" /\ workers'[i] = workers[i])
       => cache' = cache]_vars

\* C21: for a PEM-family file the extracted leaf is the first block, in file
\* order, whose type is CERTIFICATE and that parses; later CERTIFICATE blocks
\* and blocks of other types play no part, and extraction fails when no block
\* has both the type and a successful parse.
C21_PemPrecedence ==
    (input.fn = "parseLeafCertificate" /\ output.done) =>
        LET b == input.blocks
            leaf(k) == b[k].type = "CERTIFICATE" /\ b[k].bytes \in Certs IN
        IF \E k \in 1..Len(b) : leaf(k)
        THEN \E k \in 1..Len(b) :
                /\ leaf(k)
                /\ \A j \in 1..(k - 1) : ~leaf(j)
                /\ output.val = b[k].bytes
        ELSE output.val = NoCert
\* a CERTIFICATE block that does not parse, the leaf, then another certificate
C21_Witness ==
    /\ input.fn = "parseLeafCertificate"
    /\ input.blocks = <<[type |-> "CERTIFICATE", bytes |-> "badcert"],
                        [type |-> "CERTIFICATE", bytes |-> "certB"],
                        [type |-> "CERTIFICATE", bytes |-> "certA"]>>
    /\ output.done
    /\ output.val = "certB"

\* C22: DetermineIssuerCode returns 33 whenever subject and issuer common names
\* are equal up to case, whatever the issuer name contains; otherwise 30 if the
\* issuer name contains "digicert" in any case, otherwise 31 if it contains
\* "amazon", otherwise 32.
C22_IssuerCode ==
    (input.fn = "DetermineIssuerCode" /\ output.done) =>
        LET has(word) ==
                \E k \in 0..(Len(input.issuer) - Len(word)) :
                    EqualFold(SubSeq(input.issuer, k + 1, k + Len(word)), word)
            self == EqualFold(input.subject, input.issuer) IN
        /\ output.val \in {30, 31, 32, 33}
        /\ output.val = 33 <=> self
        /\ output.val = 30 <=> ~self /\ has(Digicert)
        /\ output.val = 31 <=> ~self /\ ~has(Digicert) /\ has(Amazon)
\* a self-signed certificate whose names differ in case and contain DigiCert
C22_Witness ==
    /\ input.fn = "DetermineIssuerCode"
    /\ input.subject = CnDigiCert
    /\ input.issuer = CnDigiCertUpper
    /\ output.done
    /\ output.val = 33

\* C23: IsWeakKey is true exactly for RSA keys whose modulus is shorter than
\* 2048 bits and ECDSA keys whose curve is smaller than 256 bits; keys at the
\* threshold and keys of every other type are not weak.
C23_WeakKey ==
    (input.fn = "IsWeakKey" /\ output.done) =>
        (output.val <=> \/ input.key.type = "rsa" /\ input.key.bits < 2048
                        \/ input.key.type = "ecdsa" /\ input.key.bits < 256)
\* an RSA key of exactly 2048 bits is not weak
C23_Witness ==
    /\ input.fn = "IsWeakKey"
    /\ input.key = [type |-> "rsa", bits |-> 2048]
    /\ output.done
    /\ ~output.val

C25_LossyLoad ==
    [][(cacheLog'.op = "load" /\ disk.ok /\ disk.kind = "garbage")
       => /\ cache' = EmptyMap
          /\ \A f \in Files, info \in {StatOf(g) : g \in DOMAIN fs} :
                ~CacheHit(f \in DOMAIN cache', NoInfo, info)]_vars
\* a table of two entries was loaded from a file that does not parse
C25_Witness ==
    /\ cacheLog.op = "load"
    /\ DOMAIN cacheLog.held = CachePaths
    /\ disk = GarbageFile
    /\ cache = EmptyMap

\* C27: the watch set follows the trees: once the event of a directory created
\* in a watched directory is handled the directory is watched, and once the
\* event of the deletion or the rename of a watched directory is handled
\* neither it nor a directory below it is watched.
C27_WatchSetFollows ==
    [][Handling =>
         LET ev == Head(events) IN
         /\ ("Create" \in ev.op /\ tree[ev.name] = "dir"
                /\ ParentOf(ev.name) \in watchedDirs)
               => ev.name \in watchedDirs'
         /\ (ev.op \cap {"Remove", "Rename"} # {} /\ tree[ev.name] = "none"
                /\ ev.name \in watchedDirs)
               => \A q \in watchedDirs' : q # ev.name /\ ~Below(q, ev.name)]_vars

\* C28: handling a removal event for p leaves neither p nor a watched path
\* that p prefixes in the watch set when p is gone or is a directory, and
\* leaves the watch set as it was when p exists and is no directory.
C28_RemovalEvent ==
    [][(Handling /\ "Remove" \in Head(events).op) =>
         LET p == Head(events).name IN
         IF tree[p] \in {"none", "dir"}
         THEN /\ p \notin watchedDirs'
              /\ \A q \in watchedDirs : HasPrefix(q, p) => q \notin watchedDirs'
         ELSE watchedDirs' = watchedDirs]_vars

\* the removal of the root was handled while d1/sub and d1/sub2 were watched
C28_Witness ==
    /\ watchPc = "running"
    /\ "Remove" \in handled.op
    /\ handled.name = PathRoot
    /\ handled.before = {PathRoot, PathSub, PathSub2}
    /\ tree[PathRoot] = "none"
    /\ watchedDirs = {}

\* C29: handling an event with a create, write, remove or rename operation
\* leaves a reload signal pending and counts one more trigger, handling any
\* other event (chmod only) leaves the channel alone, and the loop can always
\* take the next event, whatever the scan loop does and whether or not a
\* signal is pending.
C29_ReloadSignal ==
    /\ [][Handling =>
            IF Head(events).op \cap {"Create", "Write", "Remove", "Rename"} # {}
            THEN /\ reloadCh' > 0
                 /\ reloadCh' >= reloadCh
                 /\ trigCount' = Min(trigCount + 1, MaxTrigCount)
            ELSE reloadCh' = reloadCh /\ trigCount' = trigCount]_vars
    /\ []((watchPc = "running" /\ events # <<>>) => ENABLED WatchLoopHandle)

\* a rename event was handled during a scan pass with a signal pending
C29_Witness ==
    /\ "Rename" \in handled.op
    /\ handled.scanning
    /\ handled.pending = ReloadChCap
    /\ reloadCh = ReloadChCap

\* C30: config debounce. No second callback is ever pending; an event that
\* arrives less than 2s after the previous one finds that no reload has run
\* since and leaves only its own timer pending; a reload runs only 2s after
\* the last event and only once; and once more than 2s have passed since the
\* last event, that one reload has run.
C30_Debounce ==
    /\ [](Cardinality(debounce.pending) <= 1)
    /\ [][/\ (debounce'.last = now /\ debounce.last # NoTimer
                 /\ debounce' # debounce /\ now - debounce.last < Debounce)
               => /\ debounce.since = 0
                  /\ debounce'.pending = {now + Debounce}
          /\ (debounce'.since # debounce.since /\ debounce'.since > 0)
               => /\ now = debounce.last + Debounce
                  /\ debounce'.since = 1]_vars
    /\ []((debounce.last # NoTimer /\ now > debounce.last + Debounce)
             => debounce.since = 1)

\* a burst of three events was followed by its reload
C30_Witness ==
    /\ debounce.burst = 3
    /\ debounce.since = 1
    /\ debounce.firedAt = debounce.last + Debounce
    /\ debounce.pending = {}

\* C37: handling the removal of p unregisters only p and the directories in
\* the tree below p: a watched directory that is neither p nor below p stays
\* watched.
C37_OnlySubtree ==
    [][(Handling /\ "Remove" \in Head(events).op) =>
         LET p == Head(events).name IN
         \A q \in watchedDirs :
            (q # p /\ ~Below(q, p)) => q \in watchedDirs']_vars

\* C36: backoff grows across passes: of two attempts on a directory that
\* failed in a row, the later one is assigned a larger delay (next-allowed
\* time minus the time of the attempt) than the earlier one, unless the
\* earlier delay had reached the 10-minute ceiling.
C36_GrowsAcrossPasses ==
    \A d \in Dirs : \A k \in 1..(Len(failLog[d]) - 1) :
        \/ failLog[d][k].delay >= MaxBackoff
        \/ TotalDelay(failLog[d], k + 1) > TotalDelay(failLog[d], k)

\* C40: the cache never masks a change. An entry that is stored or replaced
\* is stored by a worker, with the modification time and size of the stat the
\* worker took before it read the file; and an entry whose modification time and size equal those of the
\* file as it is now holds the fingerprint of the leaf the file holds now, so
\* that a scan skips a file only when its content is the one recorded.
C40_NeverMasked ==
    /\ [][\A f \in DOMAIN cache' :
            (f \notin DOMAIN cache \/ cache'[f] # cache[f])
            => \E st \in BOOLEAN, i \in WorkerIds :
                  /\ Pool(st)[i].pc = "set"
                  /\ Head(Pool(st)[i].todo) = f
                  /\ cache'[f].mod = Pool(st)[i].info.mod
                  /\ cache'[f].size = Pool(st)[i].info.size]_vars
    /\ [](\A f \in DOMAIN cache \cap DOMAIN fs :
            CacheHit(TRUE, cache[f], StatOf(f))
            => cache[f].fp = Sha256(parseLeafCertificate(fs[f].body)))

\* the file grew between a worker's stat and its read: the entry holds the
\* new leaf under the old size, and the next scan reads the file again
C40_Witness ==
    /\ "d1/a.pem" \in DOMAIN cache \cap DOMAIN fs
    /\ fs["d1/a.pem"] = ImgGrown
    /\ cache["d1/a.pem"].fp = Sha256("certB")
    /\ cache["d1/a.pem"].size = ImgA.size
    /\ ~CacheHit(TRUE, cache["d1/a.pem"], StatOf("d1/a.pem"))

\* C38: the snapshot a pass has read has NumWorkers >= 1, and a pass that is
\* not cancelled reaches its housekeeping with at least one directory handed
\* to a worker.
C38_AtLeastOneWorker ==
    /\ scanPc \notin {"select", "reset"} => passCfg.NumWorkers >= 1
    /\ (scanPc = "prune" /\ ~ctxDone) => \E d \in Dirs : procCount[d] >= 1

\* C31: a config reload whose load or validation fails leaves the global
\* snapshot as it was and emits no reload signal; a reload that succeeds
\* leaves the loaded configuration as the snapshot and a reload signal
\* pending.
C31_FailedReload ==
    [][cfgReload'.runs # cfgReload.runs =>
         LET f == cfgReload.file IN
         IF f.kind # "yaml" \/ f.cfg.NumWorkers < 1
         THEN config' = config /\ reloadCh' = reloadCh /\ trigCount' = trigCount
         ELSE /\ config' = f.cfg
              /\ reloadCh' > 0
              /\ trigCount' = Min(trigCount + 1, MaxTrigCount)]_vars

\* a reload found a document with no workers: the snapshot is the old one and
\* no signal is pending
C31_Witness ==
    /\ cfgReload.err
    /\ cfgReload.file.kind = "yaml"
    /\ cfgReload.file.cfg.NumWorkers = 0
    /\ cfgReload.file.cfg.DryRun # config.DryRun
    /\ config.NumWorkers = 1
    /\ reloadCh = 0

\* C32: the decisions of a unit of work come from the snapshot read at its
\* start: a worker of a pass writes the facts of a leaf it parsed when that
\* snapshot has dry-run off, and writes none when it has dry-run on.
C32_OneSnapshot ==
    [][(call.pc = "read" /\ call'.pc = "set") =>
         /\ ~passCfg.DryRun => Head(call.todo) \in DOMAIN facts'
         /\ passCfg.DryRun => facts' = facts]_vars

\* C33: once Stop has returned no watch handle is open and the WatchSet is
\* empty from then on; a loop returns only when the shutdown context is
\* cancelled or its event channel is closed, and once one of the two has
\* happened its return is a step it can take.
C33_Shutdown ==
    /\ [](watchPc = "stopped" =>
            /\ watchRun.watcher = "closed"
            /\ watchRun.configWatcher = IF watchRun.watchConfig THEN "closed" ELSE "nil"
            /\ watchedDirs = {})
    /\ [][/\ (watchRun.watchLoop = "running" /\ watchRun'.watchLoop = "exited")
               => (ctxDone \/ watchRun.watcher = "closed")
          /\ (watchRun.configLoop = "running" /\ watchRun'.configLoop = "exited")
               => (ctxDone \/ watchRun.configWatcher = "closed")]_vars
    /\ []((watchRun.watchLoop = "running" /\ (ctxDone \/ watchRun.watcher = "closed"))
            => ENABLED WatchLoopExit)
    /\ []((watchRun.configLoop = "running"
               /\ (ctxDone \/ watchRun.configWatcher = "closed"))
            => ENABLED ConfigLoopExit)

\* Stop was called on a watcher with registered directories and a handled
\* event, without a cancellation: both loops have returned
C33_Witness ==
    /\ watchPc = "stopped"
    /\ ~ctxDone
    /\ handled.before # {}
    /\ watchedDirs = {}
    /\ watchRun.watcher = "closed" /\ watchRun.configWatcher = "closed"
    /\ watchRun.watchLoop = "exited" /\ watchRun.configLoop = "exited"

\* C39: once the shutdown context is cancelled and watchConfigLoop has
\* returned, no debounce timer runs reloadConfig.
C39_NoReloadAfterExit ==
    [][(ctxDone /\ watchRun.configLoop = "exited") => debounce' = debounce]_vars

\* a path has a component named old or working, in any case
HasExcludedComponent(path) ==
    \E i, j \in 1..Len(path) :
        /\ i <= j
        /\ i = 1 \/ path[i - 1] = "/"
        /\ j = Len(path) \/ path[j + 1] = "/"
        /\ \A k \in i..j : path[k] # "/"
        /\ \E n \in ExcludedNames : EqualFold(SubSeq(path, i, j), n)
\* the part of a path from the name of the root r on
FromRoot(path, r) == SubSeq(path, Len(r) - Len(BaseName(r)) + 1, Len(path))
\* the roots of cfg.CertDirs in this behaviour
RootsHere == WatchRoots \cap DOMAIN tree
AtOrBelow(p, r) == p = r \/ Below(p, r)
\* no file in a directory named old or working below its root has been
\* listed, read, parsed or cached by ProcessDirectory
ExcludedFilesUntouched ==
    \A f \in Files :
        HasExcludedComponent(SubdirOf(f)) =>
            /\ f \notin DOMAIN cache
            /\ f \notin DOMAIN facts
            /\ sink.parseErrors[f] = 0
            /\ \A k \in 1..Len(call.todo) : call.todo[k] # f

\* C34 as stated: no registered directory has a component named old or
\* working anywhere in its path, and no file below such a directory is read,
\* parsed or cached by ProcessDirectory.
C34_AsStated ==
    /\ \A p \in watchedDirs : ~HasExcludedComponent(p)
    /\ ExcludedFilesUntouched

\* C34: no registered directory has a component named old or working at or
\* below the configured root it was reached from, and no file below such a
\* directory of a root is read, parsed or cached by ProcessDirectory.
C34_SubtreeExclusion ==
    /\ \A p \in watchedDirs : \A r \in RootsHere :
          AtOrBelow(p, r) => ~HasExcludedComponent(FromRoot(p, r))
    /\ ExcludedFilesUntouched

\* Start has run on a tree with d1/Old/in and d1/sub/WORKING/in, and a call of
\* ProcessDirectory on d1, which holds Old/x.pem, has returned
C34_Witness ==
    /\ watchPc = "running"
    /\ tree[PathOldIn] = "dir"
    /\ tree[PathSubWorkingIn] = "dir"
    /\ PathSub \in watchedDirs
    /\ call.pc = "off"
    /\ callsLeft = 0
    /\ "d1/a.pem" \in DOMAIN cache
    /\ "d1/Old/x.pem" \in DOMAIN fs

\* C35: when Start has returned no directory whose registration failed is
\* registered, and every directory of a root's tree that is not excluded and
\* whose registration succeeds is registered, whatever failed beside it.
C35_FailureIsLocal ==
    watchPc = "running" =>
        \A p \in DOMAIN tree :
            /\ p \in watchRun.addFails => p \notin watchedDirs
            /\ (/\ tree[p] = "dir"
                /\ p \notin watchRun.addFails
                /\ \E r \in RootsHere :
                      AtOrBelow(p, r) /\ ~HasExcludedComponent(FromRoot(p, r)))
               => p \in watchedDirs

\* the registration of d1/sub and of the root d2 failed; d1/sub/deep and
\* d2/live are registered
C35_Witness ==
    /\ watchPc = "running"
    /\ {PathSub, PathRoot2} \subseteq watchRun.addFails
    /\ PathSub \notin watchedDirs /\ PathRoot2 \notin watchedDirs
    /\ {PathRoot, PathSubDeep, PathLive} \subseteq watchedDirs
====
